---- MODULE Spec2Model ----
(***************************************************************************)
(* Fallback-routing clients of the NATS permissions POC.                   *)
(*                                                                         *)
(*   NATSPublisher              publisher.ts (subject fallback)            *)
(*   RequestReplyLeafPublisher  request-reply-leaf-publisher.ts            *)
(*   BroadcastSubscriber        broadcast-subscriber (endpoint fallback)   *)
(*   NATSSubscriber             subscriber.ts                              *)
(*                                                                         *)
(* The broker and the nats client library are the environment: the result  *)
(* of connect(), request(), subscribe() is chosen nondeterministically.    *)
(* A handler is cut into steps at its await points.                        *)
(***************************************************************************)
EXTENDS Integers, Sequences, FiniteSets, TLC

VARIABLES
  \* ---- NATSPublisher (publisher.ts)
  pub_config,        \* key of `scenarios` the instance was built with
  pub_nc,            \* this.nc: FALSE = null, TRUE = a live NatsConnection
  pub_pc,            \* position of the role: new, connecting, connectFailed, ready,
                     \* awaitPrimary, awaitFallback, returned, threw
  pub_message,       \* argument of the running publishWithFallback call
  pub_requests,      \* nc.request calls the running call issued, in order
  pub_log,           \* console lines of the running call that record an attempt's result
  pub_thrown,        \* the Error the call threw, or NoError
  pub_calls,         \* number of publishWithFallback calls started
  pub_exit,          \* exit code of the publisher process, or NoExit
  pub_oneway,        \* publishSimple calls made so far, in order, with their outcome
  pub_main,          \* main(): --interactive given, the readline loop, the lines it
                     \* has processed, the close() calls that reached nc.drain() and
                     \* how the drain ended
  \* ---- RequestReplyLeafPublisher / BroadcastSubscriber, one per instance
  sel_class,         \* which class the instance is
  sel_user,          \* config.name
  sel_nc,            \* this.nc: NULL or the cluster name the connection is to
  sel_connectedCluster, \* this.connectedCluster: NULL or a cluster name
  sel_open,          \* connections of the instance that are open at the broker
  sel_i,             \* index of `cluster` in the for-of loop over this.clusters
  sel_pc,            \* position inside connectWithFallback: new, connecting,
                     \* probing, closing, done, closed (after the public close())
  sel_ret,           \* value connectWithFallback returned
  sel_attempts,      \* per loop iteration: what the console reported of it
  \* ---- NATSSubscriber / BroadcastSubscriber process (main and its handlers)
  sub_class,         \* "NATSSubscriber" or "BroadcastSubscriber"
  sub_pc,            \* position of main(): new, connecting, listening, failed, exited
  sub_nc,            \* NATSSubscriber.nc: "null", "open" or "closed"
  sub_subscriptions, \* this.subscriptions, in push order, each with its state at the broker
  sub_failed,        \* registrations the console reported as failed, in order
  sub_inbox,         \* per subscription: messages delivered and not yet handled
  sub_messageCount,  \* this.messageCount
  sub_handled,       \* messages the handlers processed, in order
  sub_replies,       \* nc.publish(msg.reply, ...) calls, in order
  sub_published,     \* number of messages published to the broker so far
  sub_sd,            \* the running shutdown: its position and loop index
  sub_exit,          \* process exit code, or NoExit
  sub_signal,        \* the first signal delivered to the process, or NoSignal
  sub_reported,      \* the count the `Final Statistics` line printed, or NoReport
  sub_again,         \* a cleanup() started while the first was still awaiting: pc, k, cause, log
  \* ---- Scenario3TestOrchestrator (scenario3-test) and its child processes
  orch_pc,           \* position of runCompleteTest: new, verifying,
                     \* startingSubscribers, waitingForSubscribers, testing,
                     \* summary, cleanup, done
  orch_processes,    \* this.processes: the subscriber children, in spawn order
  orch_testResults,  \* this.testResults
  orch_i,            \* test case the loop of runBroadcastTests is at (1-based)
  orch_wait,         \* what that loop iteration awaits
  orch_publishers,   \* the publisher children spawned, by test case
  orch_log,          \* per test case, the line the orchestrator printed about its publish
  orch_signal,       \* SIGINT / SIGTERM handled so far and the state of the handler's cleanup()
  \* ---- BroadcastPublisher process (broadcast-publisher.ts)
  bp_args,           \* process.argv.slice(2)
  bp_pc,             \* position of main(): connecting, testing, closing, returned, exited
  bp_nc,             \* the connection of this.nc: "null", "open", "closing" or "closed"
  bp_rl,             \* the readline interface: "none", "asking" or "closed"
  bp_ops,            \* publishes issued, in order, with the connection's state then
  bp_lines,          \* input lines handled so far
  \* ---- AllScenariosTestSuite process (all-scenarios test)
  ts_pc,             \* position of runAllScenarios / of the running test case
  ts_i,              \* plan step the suite is at (1-based)
  ts_sessions,       \* connections the test cases opened, in order, with their state
  ts_results,        \* this.results
  ts_ops,            \* what the test cases did on the brokers and how it ended
  ts_processes,      \* this.processes: indices into ts_children
  ts_children,       \* every child spawned: SIGTERMs sent to it, its `killed` flag
  ts_exit,           \* exit code of the process, or NoExit
  ts_signal          \* SIGINTs handled so far and the handlers still in cleanup()'s wait

pubVars == <<pub_config, pub_nc, pub_pc, pub_message, pub_requests, pub_log,
             pub_thrown, pub_calls, pub_exit, pub_oneway, pub_main>>
selVars == <<sel_class, sel_user, sel_nc, sel_connectedCluster, sel_open, sel_i,
             sel_pc, sel_ret, sel_attempts>>
subVars == <<sub_class, sub_pc, sub_nc, sub_subscriptions, sub_failed, sub_inbox,
             sub_messageCount, sub_handled, sub_replies, sub_published, sub_sd,
             sub_exit, sub_signal, sub_reported, sub_again>>
orchVars == <<orch_pc, orch_processes, orch_testResults, orch_i, orch_wait,
              orch_publishers, orch_log, orch_signal>>
bpVars == <<bp_args, bp_pc, bp_nc, bp_rl, bp_ops, bp_lines>>
tsVars == <<ts_pc, ts_i, ts_sessions, ts_results, ts_ops, ts_processes, ts_children,
           ts_exit, ts_signal>>
vars == <<pubVars, selVars, subVars, orchVars, bpVars, tsVars>>

NULL == "null"

(***************************************************************************)
(* Strings the code inspects, as sequences of characters.                  *)
(***************************************************************************)
Str_no_responders == <<"n","o"," ","r","e","s","p","o","n","d","e","r","s">>
Str_timeout == <<"t","i","m","e","o","u","t">>
Str_Permissions_Violation ==
  <<"P","e","r","m","i","s","s","i","o","n","s"," ","V","i","o","l","a","t","i","o","n">>
Str_503 == <<"5","0","3">>

\* String.prototype.includes: sub occurs in s as a contiguous run of characters.
includes(s, sub) ==
  \E k \in 0..(Len(s) - Len(sub)) :
    \A n \in 1..Len(sub) : s[k + n] = sub[n]

(***************************************************************************)
(* Errors a request can be rejected with: `message` and the text of        *)
(* toString().  The messages cover each substring the code looks for,      *)
(* messages holding none of them, and an error without a message.          *)
(***************************************************************************)
Str_NatsError == <<"N","a","t","s","E","r","r","o","r">>

ErrorMessages ==
  { Str_503,
    <<"T","I","M","E","O","U","T">>,
    <<"t","i","m","e","o","u","t">>,
    <<"n","o"," ","r","e","s","p","o","n","d","e","r","s"," ","a","v","a","i","l","a","b","l","e">>,
    <<"P","e","r","m","i","s","s","i","o","n","s"," ","V","i","o","l","a","t","i","o","n">>,
    <<"C","O","N","N","E","C","T","I","O","N","_","C","L","O","S","E","D">> }

Errors ==
  { [message |-> m, toString |-> Str_NatsError \o <<":"," ">> \o m] : m \in ErrorMessages }
    \cup { [message |-> <<>>, toString |-> Str_NatsError] }

\* What `await nc.request(...)` resolves to: a reply, or a rejection.
Reply == [kind |-> "reply"]
Rejected(e) == [kind |-> "error", error |-> e]
RequestOutcomes == {Reply} \cup { Rejected(e) : e \in Errors }

\* error.message || error.toString()
ErrorMsgOf(e) == IF e.message # <<>> THEN e.message ELSE e.toString

(***************************************************************************)
(* NATSPublisher                                                           *)
(***************************************************************************)
MaxCalls == 2
MaxOneWay == 2
Messages == {"Hello", "Bye"}

\* Subjects and message given to publishSimple.
OneWaySubjects == { <<"rpc","hello","world">>, <<"broad","rpc","hello","world">> }
OneWayMessage == "Hello"

scenarios ==
  [ scenario1 |-> [ user |-> "Bar",
                    primarySubject |-> <<"rpc","hello","world">>,
                    fallbackSubject |-> <<"broad","rpc","hello","world">> ],
    scenario2 |-> [ user |-> "Foo",
                    primarySubject |-> <<"rpc","hello","world">>,
                    fallbackSubject |-> <<"broad","rpc","hello","world">> ] ]

PubConfig == scenarios[pub_config]

\* The publisher process has not ended.
PubNoExit == [ended |-> FALSE]

NoError == [kind |-> "none"]
NotConnectedError == [kind |-> "NotConnected"]

\* The Error of line 186:
\* `Both primary (${primarySubject}) and fallback (${fallbackSubject}) subjects failed: ${errorMsg}`
BothFailedError(primary, fallback, errorMsg) ==
  [kind |-> "BothFailed", primary |-> primary, fallback |-> fallback, errorMsg |-> errorMsg]

\* The `Reason:` line the catch block of attempt 1 prints.
PrimaryReason(errorMsg) ==
  IF includes(errorMsg, Str_no_responders) THEN "NoActiveSubscribers"
  ELSE IF includes(errorMsg, Str_timeout) THEN "RequestTimeout"
  ELSE IF includes(errorMsg, Str_Permissions_Violation) THEN "PermissionDenied"
  ELSE IF includes(errorMsg, Str_503) THEN "NoResponderError"
  ELSE "Other"

\* The `Reason:` line the catch block of attempt 2 prints.
FallbackReason(errorMsg) ==
  IF includes(errorMsg, Str_no_responders) THEN "NoActiveSubscribers"
  ELSE IF includes(errorMsg, Str_timeout) THEN "RequestTimeout"
  ELSE IF includes(errorMsg, Str_Permissions_Violation) \/ includes(errorMsg, Str_503)
    THEN "PermissionDenied"
  ELSE "Other"

\* Mutant: attempt 1 is sent to the fallback subject.
PrimaryRequest_onFallbackSubject(message) ==
  [ subject |-> PubConfig.fallbackSubject,
    data |-> [message |-> message, user |-> PubConfig.user, attempt |-> 1] ]

PrimaryRequest(message) ==
  [ subject |-> PubConfig.primarySubject,
    data |-> [message |-> message, user |-> PubConfig.user, attempt |-> 1] ]

\* Mutant: attempt 2 retries the primary subject.
FallbackRequest_onPrimarySubject(message) ==
  [ subject |-> PubConfig.primarySubject,
    data |-> [ message |-> message, user |-> PubConfig.user, attempt |-> 2,
               fallback |-> TRUE, originalSubject |-> PubConfig.primarySubject ] ]

FallbackRequest(message) ==
  [ subject |-> PubConfig.fallbackSubject,
    data |-> [ message |-> message, user |-> PubConfig.user, attempt |-> 2,
               fallback |-> TRUE, originalSubject |-> PubConfig.primarySubject ] ]

\* main() before it runs: isInteractive = args.includes('--interactive').
InitMain(isInteractive) ==
  [interactive |-> isInteractive, rl |-> "none", endedBy |-> "none", lines |-> <<>>,
   closes |-> 0, drain |-> "none"]

\* One pass of the body of the `for await` loop of runInteractiveMode has
\* completed: publishWithFallback / publishSimple returned, or threw into the
\* loop's catch, which prints the error.  Outside interactive mode there is
\* no loop to record it.
LineDone(result) ==
  IF pub_main.interactive
    THEN [pub_main EXCEPT !.lines = Append(@, [result |-> result, rl |-> pub_main.rl,
                                                closes |-> pub_main.closes])]
    ELSE pub_main

InitPublisher ==
  /\ pub_config \in DOMAIN scenarios
  /\ pub_main \in {InitMain(i) : i \in BOOLEAN}
  /\ pub_nc = FALSE
  /\ pub_pc = "new"
  /\ pub_message = NULL
  /\ pub_requests = <<>>
  /\ pub_log = <<>>
  /\ pub_thrown = NoError
  /\ pub_calls = 0
  /\ pub_exit = PubNoExit
  /\ pub_oneway = <<>>

\* connect(): up to `await connect(opts)`.
PubConnectStart ==
  /\ pub_pc = "new"
  /\ pub_pc' = "connecting"
  /\ UNCHANGED <<pub_config, pub_nc, pub_message, pub_requests, pub_log, pub_thrown, pub_calls,
                 pub_exit, pub_oneway, pub_main>>
  /\ UNCHANGED <<selVars, subVars, orchVars, bpVars, tsVars>>

\* connect() resumes: this.nc is set, or the error is rethrown.  With
\* --interactive main() goes on into runInteractiveMode, which creates the
\* readline interface and waits for the first line.
PubConnectResolve(ok) ==
  /\ pub_pc = "connecting"
  /\ pub_nc' = ok
  /\ pub_pc' = IF ok THEN "ready" ELSE "connectFailed"
  /\ pub_main' = IF ok /\ pub_main.interactive
                   THEN [pub_main EXCEPT !.rl = "open"]
                   ELSE pub_main
  /\ UNCHANGED <<pub_config, pub_message, pub_requests, pub_log, pub_thrown, pub_calls, pub_exit, pub_oneway>>
  /\ UNCHANGED <<selVars, subVars, orchVars, bpVars, tsVars>>

\* publishWithFallback(message) on an instance without a connection: line 86
\* tests this.nc only, so the call throws before a connect, after a failed
\* one, again after an earlier such call, and while connect() is still
\* awaited.  The throw changes nothing in the instance: connect() can still be
\* called, or goes on to resolve.  pub_calls, pub_message, pub_log,
\* pub_requests and pub_thrown are the record of the call.
PublishNotConnected(message) ==
  /\ pub_exit = PubNoExit
  /\ ~pub_nc
  /\ pub_calls < MaxCalls
  /\ pub_calls' = pub_calls + 1
  /\ pub_message' = message
  /\ pub_log' = <<>>
  /\ pub_thrown' = NotConnectedError
  /\ pub_requests' = <<>>
  /\ UNCHANGED <<pub_config, pub_nc, pub_pc, pub_exit, pub_oneway, pub_main>>
  /\ UNCHANGED <<selVars, subVars, orchVars, bpVars, tsVars>>

\* publishWithFallback(message), lines 85-113: up to the await of attempt 1.
\* In interactive mode the call is made for a line the readline loop took:
\* one typed now, or one read while the call before it was awaited, which the
\* loop still takes after the input has ended.
PublishWithFallbackStart(message) ==
  /\ pub_exit = PubNoExit
  /\ pub_pc \in {"ready", "returned", "threw"}
  /\ pub_nc
  /\ pub_main.drain = "none"
  /\ pub_main.interactive => pub_main.rl # "none"
  /\ pub_calls < MaxCalls
  /\ pub_calls' = pub_calls + 1
  /\ pub_message' = message
  /\ pub_log' = <<>>
  /\ pub_thrown' = NoError
  /\ pub_requests' = <<PrimaryRequest(message)>>
  /\ pub_pc' = "awaitPrimary"
  /\ UNCHANGED <<pub_config, pub_nc, pub_exit, pub_oneway, pub_main>>
  /\ UNCHANGED <<selVars, subVars, orchVars, bpVars, tsVars>>

\* Lines 115-160: attempt 1 resolves.  A reply returns; a rejection is logged
\* with its reason and the request of attempt 2 is issued.
PrimaryResolve(outcome) ==
  /\ pub_pc = "awaitPrimary"
  /\ IF outcome.kind = "reply"
       THEN /\ pub_log' = Append(pub_log,
                 [attempt |-> 1, subject |-> PubConfig.primarySubject, result |-> "success"])
            /\ pub_pc' = "returned"
            /\ UNCHANGED pub_requests
       ELSE /\ pub_log' = Append(pub_log,
                 [attempt |-> 1, subject |-> PubConfig.primarySubject, result |-> "failed",
                  errorMsg |-> ErrorMsgOf(outcome.error),
                  reason |-> PrimaryReason(ErrorMsgOf(outcome.error))])
            /\ pub_requests' = Append(pub_requests, FallbackRequest(pub_message))
            /\ pub_pc' = "awaitFallback"
  /\ pub_main' = IF outcome.kind = "reply" THEN LineDone("ok") ELSE pub_main
  /\ UNCHANGED <<pub_config, pub_nc, pub_message, pub_thrown, pub_calls, pub_exit, pub_oneway>>
  /\ UNCHANGED <<selVars, subVars, orchVars, bpVars, tsVars>>

\* Mutant: a rejected attempt 2 is repeated on the fallback subject.
FallbackResolve_retriesFallback(outcome) ==
  /\ pub_pc = "awaitFallback"
  /\ IF outcome.kind = "reply"
       THEN /\ pub_log' = Append(pub_log,
                 [attempt |-> 2, subject |-> PubConfig.fallbackSubject, result |-> "success"])
            /\ pub_pc' = "returned"
            /\ UNCHANGED pub_requests
       ELSE /\ Len(pub_requests) < 3
            /\ pub_requests' = Append(pub_requests, pub_requests[Len(pub_requests)])
            /\ UNCHANGED <<pub_log, pub_pc>>
  /\ pub_main' = IF outcome.kind = "reply" THEN LineDone("ok") ELSE pub_main
  /\ UNCHANGED <<pub_config, pub_nc, pub_message, pub_thrown, pub_calls, pub_exit, pub_oneway>>
  /\ UNCHANGED <<selVars, subVars, orchVars, bpVars, tsVars>>

\* Mutant: the Error publishWithFallback throws leaves the readline loop.
FallbackResolve_failureEndsLoop(outcome) ==
  /\ pub_pc = "awaitFallback"
  /\ IF outcome.kind = "reply"
       THEN /\ pub_log' = Append(pub_log,
                 [attempt |-> 2, subject |-> PubConfig.fallbackSubject, result |-> "success"])
            /\ pub_pc' = "returned"
            /\ UNCHANGED pub_thrown
       ELSE /\ pub_log' = Append(pub_log,
                 [attempt |-> 2, subject |-> PubConfig.fallbackSubject, result |-> "failed",
                  errorMsg |-> ErrorMsgOf(outcome.error),
                  reason |-> FallbackReason(ErrorMsgOf(outcome.error))])
            /\ pub_thrown' = BothFailedError(PubConfig.primarySubject,
                                             PubConfig.fallbackSubject,
                                             ErrorMsgOf(outcome.error))
            /\ pub_pc' = "threw"
  /\ pub_main' = IF outcome.kind = "reply" THEN LineDone("ok")
                   ELSE [LineDone("failed") EXCEPT !.rl = "closed", !.endedBy = "error"]
  /\ UNCHANGED <<pub_config, pub_nc, pub_message, pub_requests, pub_calls, pub_exit, pub_oneway>>
  /\ UNCHANGED <<selVars, subVars, orchVars, bpVars, tsVars>>

\* Lines 162-187: attempt 2 resolves.  A reply returns; a rejection is logged
\* and the composite Error is thrown.
FallbackResolve(outcome) ==
  /\ pub_pc = "awaitFallback"
  /\ IF outcome.kind = "reply"
       THEN /\ pub_log' = Append(pub_log,
                 [attempt |-> 2, subject |-> PubConfig.fallbackSubject, result |-> "success"])
            /\ pub_pc' = "returned"
            /\ UNCHANGED pub_thrown
       ELSE /\ pub_log' = Append(pub_log,
                 [attempt |-> 2, subject |-> PubConfig.fallbackSubject, result |-> "failed",
                  errorMsg |-> ErrorMsgOf(outcome.error),
                  reason |-> FallbackReason(ErrorMsgOf(outcome.error))])
            /\ pub_thrown' = BothFailedError(PubConfig.primarySubject,
                                             PubConfig.fallbackSubject,
                                             ErrorMsgOf(outcome.error))
            /\ pub_pc' = "threw"
  /\ pub_main' = LineDone(IF outcome.kind = "reply" THEN "ok" ELSE "failed")
  /\ UNCHANGED <<pub_config, pub_nc, pub_message, pub_requests, pub_calls, pub_exit, pub_oneway>>
  /\ UNCHANGED <<selVars, subVars, orchVars, bpVars, tsVars>>

\* Mutant: a publish the broker drops as unauthorized is reported as a failure.
publishSimpleOutcome_deniedThrows(sendThrows, authorized) ==
  IF sendThrows \/ ~authorized THEN "threw" ELSE "published"

\* What publishSimple reports: `Message published successfully` once
\* nc.publish has returned, or the error nc.publish threw, rethrown.  The
\* broker's decision is not an input the method reads.
publishSimpleOutcome(sendThrows, authorized) ==
  IF sendThrows THEN "threw" ELSE "published"

\* publishSimple(subject, message) on the connected instance (interactive
\* command `simple:<subject>:<message>`).  sendThrows is nc.publish throwing
\* on the client side; authorized is the broker's decision on the message,
\* which it delivers or silently drops.
PublishSimple(subject, message, sendThrows, authorized) ==
  /\ pub_exit = PubNoExit
  /\ pub_pc \in {"ready", "returned", "threw"}
  /\ pub_nc
  /\ pub_main.drain = "none"
  /\ pub_main.interactive => pub_main.rl # "none"
  /\ pub_main' = LineDone(IF publishSimpleOutcome(sendThrows, authorized) = "threw"
                            THEN "failed" ELSE "ok")
  /\ Len(pub_oneway) < MaxOneWay
  /\ pub_oneway' = Append(pub_oneway,
       [subject |-> subject, message |-> message, sendThrew |-> sendThrows,
        authorized |-> authorized,
        delivered |-> (~sendThrows /\ authorized),
        outcome |-> publishSimpleOutcome(sendThrows, authorized)])
  /\ UNCHANGED <<pub_config, pub_nc, pub_pc, pub_message, pub_requests, pub_log, pub_thrown,
                 pub_calls, pub_exit>>
  /\ UNCHANGED <<selVars, subVars, orchVars, bpVars, tsVars>>

\* main() of publisher.ts comes to its finally block after the connect
\* failed or after its single publishWithFallback; the catch block has
\* logged what was thrown.  Without a connection close() does nothing and
\* main() returns, so the process ends with the default exit code; with one,
\* close() runs up to `await this.nc.drain()`.
PubMainEnd ==
  /\ pub_exit = PubNoExit
  /\ pub_main.drain = "none"
  /\ \/ pub_pc = "connectFailed"
     \/ pub_pc \in {"returned", "threw"} /\ pub_nc /\ ~pub_main.interactive
  /\ IF pub_nc
       THEN /\ pub_main' = [pub_main EXCEPT !.closes = @ + 1, !.drain = "pending"]
            /\ UNCHANGED pub_exit
       ELSE /\ pub_exit' = [ended |-> TRUE, code |-> 0]
            /\ UNCHANGED pub_main
  /\ UNCHANGED <<pub_config, pub_nc, pub_pc, pub_message, pub_requests, pub_log, pub_thrown,
                 pub_calls, pub_oneway>>
  /\ UNCHANGED <<selVars, subVars, orchVars, bpVars, tsVars>>

\* The input ends while the call made for a line is awaited: the readline
\* interface closes at once; the loop goes on when the call is over.
PubInputEnd ==
  /\ pub_exit = PubNoExit
  /\ pub_main.interactive /\ pub_main.rl = "open"
  /\ pub_pc \in {"awaitPrimary", "awaitFallback"}
  /\ pub_main' = [pub_main EXCEPT !.rl = "closed"]
  /\ UNCHANGED <<pub_config, pub_nc, pub_pc, pub_message, pub_requests, pub_log, pub_thrown,
                 pub_calls, pub_exit, pub_oneway>>
  /\ UNCHANGED <<selVars, subVars, orchVars, bpVars, tsVars>>

\* The readline loop of runInteractiveMode ends: the line taken is `exit` or
\* `quit`, or the input has ended (now, or during the last call).  rl.close()
\* runs, runInteractiveMode returns and main()'s finally calls close(), which
\* runs up to `await this.nc.drain()`.
PubInteractiveEnd(by) ==
  /\ pub_exit = PubNoExit
  /\ pub_main.interactive /\ pub_main.rl # "none"
  /\ pub_main.drain = "none"
  /\ pub_pc \in {"ready", "returned", "threw"}
  /\ pub_nc
  /\ by \in {"exit", "quit", "eof"}
  /\ pub_main' = [pub_main EXCEPT !.rl = "closed", !.endedBy = by,
                                  !.closes = @ + 1, !.drain = "pending"]
  /\ UNCHANGED <<pub_config, pub_nc, pub_pc, pub_message, pub_requests, pub_log, pub_thrown,
                 pub_calls, pub_exit, pub_oneway>>
  /\ UNCHANGED <<selVars, subVars, orchVars, bpVars, tsVars>>

\* `await this.nc.drain()` of close() resumes (ok = FALSE: the rejection is
\* caught and logged); main() prints `Publisher stopped` and returns, so the
\* process ends with the default exit code.
PubCloseResolve(ok) ==
  /\ pub_exit = PubNoExit
  /\ pub_main.drain = "pending"
  /\ pub_main' = [pub_main EXCEPT !.drain = IF ok THEN "done" ELSE "rejected"]
  /\ pub_exit' = [ended |-> TRUE, code |-> 0]
  /\ UNCHANGED <<pub_config, pub_nc, pub_pc, pub_message, pub_requests, pub_log, pub_thrown,
                 pub_calls, pub_oneway>>
  /\ UNCHANGED <<selVars, subVars, orchVars, bpVars, tsVars>>

PublisherNext ==
  \/ PubConnectStart
  \/ \E ok \in BOOLEAN : PubConnectResolve(ok)
  \/ \E m \in Messages : PublishNotConnected(m)
  \/ \E m \in Messages : PublishWithFallbackStart(m)
  \/ \E o \in RequestOutcomes : PrimaryResolve(o)
  \/ \E o \in RequestOutcomes : FallbackResolve(o)
  \/ \E subject \in OneWaySubjects, sendThrows \in BOOLEAN, authorized \in BOOLEAN :
       PublishSimple(subject, OneWayMessage, sendThrows, authorized)
  \/ PubMainEnd
  \/ \E ok \in BOOLEAN : PubCloseResolve(ok)

\* main() of publisher.ts started with --interactive.
PublisherInteractiveNext ==
  \/ PubConnectStart
  \/ \E ok \in BOOLEAN : PubConnectResolve(ok)
  \/ \E m \in Messages : PublishWithFallbackStart(m)
  \/ \E o \in RequestOutcomes : PrimaryResolve(o)
  \/ \E o \in RequestOutcomes : FallbackResolve(o)
  \/ \E subject \in OneWaySubjects, sendThrows \in BOOLEAN, authorized \in BOOLEAN :
       PublishSimple(subject, OneWayMessage, sendThrows, authorized)
  \/ PubMainEnd
  \/ PubInputEnd
  \/ \E by \in {"exit", "quit", "eof"} : PubInteractiveEnd(by)
  \/ \E ok \in BOOLEAN : PubCloseResolve(ok)

(***************************************************************************)
(* Endpoint fallback: RequestReplyLeafPublisher.connectWithFallback and    *)
(* BroadcastSubscriber.connectWithFallback.  Two role instances (two       *)
(* processes) run side by side; each owns its fields.                      *)
(***************************************************************************)
Runs == {1, 2}
\* The configured user names, and the name connectWithFallback and the two
\* capability tests compare with, as the characters they are written with.
Str_Foo == <<"F","o","o">>
Str_Bar == <<"B","a","r">>
Str_MMM == <<"M","M","M">>
Str_bar == <<"b","a","r">>

SelClasses == {"RequestReplyLeafPublisher", "BroadcastSubscriber"}
Users == {Str_Foo, Str_Bar, Str_MMM}

\* this.clusters: the names of the ClusterInfo records, in the declared order.
clusters == <<"main", "leaf">>

\* String.prototype.toLowerCase on a string given as its characters: every
\* upper-case letter becomes its lower-case one, every other character stays.
toLowerCase(s) ==
  [n \in DOMAIN s |->
       CASE s[n] = "A" -> "a"
         [] s[n] = "B" -> "b"
         [] s[n] = "C" -> "c"
         [] s[n] = "D" -> "d"
         [] s[n] = "E" -> "e"
         [] s[n] = "F" -> "f"
         [] s[n] = "G" -> "g"
         [] s[n] = "H" -> "h"
         [] s[n] = "I" -> "i"
         [] s[n] = "J" -> "j"
         [] s[n] = "K" -> "k"
         [] s[n] = "L" -> "l"
         [] s[n] = "M" -> "m"
         [] s[n] = "N" -> "n"
         [] s[n] = "O" -> "o"
         [] s[n] = "P" -> "p"
         [] s[n] = "Q" -> "q"
         [] s[n] = "R" -> "r"
         [] s[n] = "S" -> "s"
         [] s[n] = "T" -> "t"
         [] s[n] = "U" -> "u"
         [] s[n] = "V" -> "v"
         [] s[n] = "W" -> "w"
         [] s[n] = "X" -> "x"
         [] s[n] = "Y" -> "y"
         [] s[n] = "Z" -> "z"
         [] OTHER -> s[n]]

\* testPublishCapability awaits a trial request only for bar on main.
TrialNeeded(name, clusterName) ==
  toLowerCase(name) = Str_bar /\ clusterName = "main"

\* No trial request was made.
NoTrial == [kind |-> "none"]

\* The subject of the trial request: the literal of line 120.
TrialSubject == <<"rpc","hello","world">>

\* Subjects main() of request-reply-leaf-publisher.ts is started with
\* (args[1], default rpc.hello.world).
RequestSubjects == { <<"rpc","hello","world">>, <<"broad","rpc","hello","world">> }

\* The console line the capability test prints about its trial request.
TrialLine(outcome) ==
  IF outcome.kind = "none" THEN "noTrial"
  ELSE IF outcome.kind = "reply" THEN "canAccess"
  ELSE IF includes(outcome.error.message, Str_timeout) THEN "canPublishTimeout"
  ELSE IF includes(outcome.error.message, Str_no_responders)
          \/ includes(outcome.error.message, Str_503) THEN "cannotAccess"
  ELSE "errorTesting"

\* Mutant: bar is rejected on leaf as well.
testPublishCapability_barRejectedOnLeaf(name, clusterName, outcome) ==
  IF toLowerCase(name) = Str_bar
    THEN IF clusterName = "main"
           THEN outcome.kind = "reply"
                  \/ (outcome.kind = "error" /\ includes(outcome.error.message, Str_timeout))
           ELSE FALSE
    ELSE TRUE

\* RequestReplyLeafPublisher.testPublishCapability; `outcome` is what the trial
\* request resolved to and is read for bar on main only.
testPublishCapability(name, clusterName, outcome) ==
  IF toLowerCase(name) = Str_bar
    THEN IF clusterName = "main"
           THEN IF outcome.kind = "reply" THEN TRUE
                ELSE IF includes(outcome.error.message, Str_timeout) THEN TRUE
                ELSE IF includes(outcome.error.message, Str_no_responders)
                        \/ includes(outcome.error.message, Str_503) THEN FALSE
                ELSE FALSE
           ELSE TRUE
    ELSE TRUE

\* Mutant: every user is accepted on the cluster it is connected to.
testSubscriptionCapability_barAcceptedOnMain(name, clusterName) == TRUE

\* BroadcastSubscriber.testSubscriptionCapability (no await, no request).
testSubscriptionCapability(name, clusterName) ==
  IF toLowerCase(name) = Str_bar
    THEN IF clusterName = "main" THEN FALSE
         ELSE IF clusterName = "leaf" THEN TRUE
         ELSE FALSE        \* falls off the end: undefined, which is falsy
    ELSE TRUE

\* Mutant: the clusters are walked in reverse order.
NextCluster_reversed(r) == { clusters[Len(clusters) + 1 - sel_i[r]] }

\* Mutant: any cluster not attempted yet may come next.
NextCluster_anyUntried(r) ==
  { clusters[k] : k \in { n \in DOMAIN clusters :
      \A m \in DOMAIN sel_attempts[r] : sel_attempts[r][m].cluster # clusters[n] } }

\* The element the for-of loop of connectWithFallback hands out next.
NextCluster(r) == { clusters[sel_i[r]] }

InitSelector ==
  /\ sel_class \in [Runs -> SelClasses]
  /\ sel_user \in [Runs -> Users]
  /\ sel_nc = [r \in Runs |-> NULL]
  /\ sel_connectedCluster = [r \in Runs |-> NULL]
  /\ sel_open = [r \in Runs |-> {}]
  /\ sel_i = [r \in Runs |-> 1]
  /\ sel_pc = [r \in Runs |-> "new"]
  /\ sel_ret = [r \in Runs |-> "pending"]
  /\ sel_attempts = [r \in Runs |-> <<>>]

\* The loop moves on to the next cluster, or falls out and returns false.
SelAdvance(r) ==
  /\ sel_i' = [sel_i EXCEPT ![r] = @ + 1]
  /\ IF sel_i[r] + 1 > Len(clusters)
       THEN /\ sel_pc' = [sel_pc EXCEPT ![r] = "done"]
            /\ sel_ret' = [sel_ret EXCEPT ![r] = "false"]
       ELSE /\ sel_pc' = [sel_pc EXCEPT ![r] = "connecting"]
            /\ UNCHANGED sel_ret

\* The capability test returned: true returns true, false awaits nc.close().
SelVerdict(r, c, verdict, trial) ==
  /\ sel_attempts' = [sel_attempts EXCEPT ![r] =
       Append(@, [cluster |-> c, connected |-> TRUE, trial |-> trial,
                  line |-> TrialLine(trial), validated |-> verdict,
                  closeFailed |-> FALSE])]
  /\ IF verdict
       THEN /\ sel_pc' = [sel_pc EXCEPT ![r] = "done"]
            /\ sel_ret' = [sel_ret EXCEPT ![r] = "true"]
       ELSE /\ sel_pc' = [sel_pc EXCEPT ![r] = "closing"]
            /\ UNCHANGED sel_ret

\* connectWithFallback is called: the loop starts and awaits connect(opts).
SelStart(r) ==
  /\ sel_pc[r] = "new"
  /\ sel_pc' = [sel_pc EXCEPT ![r] = "connecting"]
  /\ UNCHANGED <<sel_class, sel_user, sel_nc, sel_connectedCluster, sel_open, sel_i,
                 sel_ret, sel_attempts>>
  /\ UNCHANGED <<pubVars, subVars, orchVars, bpVars, tsVars>>

\* `await connect(opts)` throws: the catch block logs it, next iteration.
SelConnectFail(r) ==
  /\ sel_pc[r] = "connecting"
  /\ \E c \in NextCluster(r) :
       sel_attempts' = [sel_attempts EXCEPT ![r] =
         Append(@, [cluster |-> c, connected |-> FALSE, trial |-> NoTrial,
                    line |-> "failedToConnect", validated |-> FALSE,
                    closeFailed |-> FALSE])]
  /\ SelAdvance(r)
  /\ UNCHANGED <<sel_class, sel_user, sel_nc, sel_connectedCluster, sel_open>>
  /\ UNCHANGED <<pubVars, subVars, orchVars, bpVars, tsVars>>

\* `await connect(opts)` resolves: nc and connectedCluster are set and the
\* capability test runs up to its first await, or to its end if it has none.
SelConnectOk(r) ==
  /\ sel_pc[r] = "connecting"
  /\ \E c \in NextCluster(r) :
       /\ sel_nc' = [sel_nc EXCEPT ![r] = c]
       /\ sel_connectedCluster' = [sel_connectedCluster EXCEPT ![r] = c]
       /\ sel_open' = [sel_open EXCEPT ![r] = @ \cup {c}]
       /\ IF sel_class[r] = "RequestReplyLeafPublisher"
            THEN IF TrialNeeded(sel_user[r], c)
                   THEN /\ sel_pc' = [sel_pc EXCEPT ![r] = "probing"]
                        /\ UNCHANGED <<sel_ret, sel_attempts>>
                   ELSE SelVerdict(r, c, testPublishCapability(sel_user[r], c, NoTrial), NoTrial)
            ELSE SelVerdict(r, c, testSubscriptionCapability(sel_user[r], c), NoTrial)
  /\ UNCHANGED <<sel_class, sel_user, sel_i>>
  /\ UNCHANGED <<pubVars, subVars, orchVars, bpVars, tsVars>>

\* The trial request of testPublishCapability resolves.
SelTrialResolve(r, outcome) ==
  /\ sel_pc[r] = "probing"
  /\ SelVerdict(r, sel_connectedCluster[r],
                testPublishCapability(sel_user[r], sel_connectedCluster[r], outcome),
                outcome)
  /\ UNCHANGED <<sel_class, sel_user, sel_nc, sel_connectedCluster, sel_open, sel_i>>
  /\ UNCHANGED <<pubVars, subVars, orchVars, bpVars, tsVars>>

\* `await this.nc.close()` settles.  Resolved (ok): both fields are reset and
\* the loop goes to the next cluster.  Rejected: control lands in the catch
\* block of the iteration, which only logs, so this.nc and
\* this.connectedCluster keep the rejected session while the loop goes on
\* (the attempt's closeFailed stands for the catch block's line); whether
\* that connection did close (closed) is the nats client's business.
SelCloseResolve(r, ok, closed) ==
  /\ sel_pc[r] = "closing"
  /\ ok => closed
  /\ sel_open' = [sel_open EXCEPT ![r] = IF closed THEN @ \ {sel_nc[r]} ELSE @]
  /\ sel_nc' = [sel_nc EXCEPT ![r] = IF ok THEN NULL ELSE @]
  /\ sel_connectedCluster' = [sel_connectedCluster EXCEPT ![r] = IF ok THEN NULL ELSE @]
  /\ sel_attempts' = [sel_attempts EXCEPT ![r][Len(sel_attempts[r])].closeFailed = ~ok]
  /\ SelAdvance(r)
  /\ UNCHANGED <<sel_class, sel_user>>
  /\ UNCHANGED <<pubVars, subVars, orchVars, bpVars, tsVars>>

\* RequestReplyLeafPublisher.close(), which main() calls in its finally block
\* once connectWithFallback has returned true: `await this.nc.close()`
\* resolves.  The connection is closed; this.nc and this.connectedCluster
\* keep their values.
SelClose(r) ==
  /\ sel_class[r] = "RequestReplyLeafPublisher"
  /\ sel_pc[r] = "done" /\ sel_ret[r] = "true"
  /\ sel_nc[r] # NULL
  /\ sel_open' = [sel_open EXCEPT ![r] = @ \ {sel_nc[r]}]
  /\ sel_pc' = [sel_pc EXCEPT ![r] = "closed"]
  /\ UNCHANGED <<sel_class, sel_user, sel_nc, sel_connectedCluster, sel_i, sel_ret,
                 sel_attempts>>
  /\ UNCHANGED <<pubVars, subVars, orchVars, bpVars, tsVars>>

SelectorStep(r) ==
  \/ SelStart(r)
  \/ SelConnectFail(r)
  \/ SelConnectOk(r)
  \/ \E o \in RequestOutcomes : SelTrialResolve(r, o)
  \/ \E ok, closed \in BOOLEAN : SelCloseResolve(r, ok, closed)
  \/ SelClose(r)

SelectorNext == \E r \in Runs : SelectorStep(r)

(***************************************************************************)
(* Subscriber processes: NATSSubscriber (subscriber.ts) and                *)
(* BroadcastSubscriber.  The broadcast subscriber is instance 1 of the     *)
(* endpoint fallback above; NATSSubscriber connects to one fixed server.   *)
(***************************************************************************)
MaxPublished == 2
Self == 1

SubClasses == {"NATSSubscriber", "BroadcastSubscriber"}
NoExit == -1
NoReport == -1
Signals == {"SIGINT", "SIGTERM"}
NoSignal == "none"

\* Exit status of a process ended by the default action of SIGTERM (signal 15).
KilledBySigterm == 128 + 15

\* process.on(...) registrations of main(): subscriber.ts installs cleanup for
\* SIGINT and SIGTERM, the broadcast subscriber a handler for SIGINT only.
HandledSignals(class) ==
  IF class = "NATSSubscriber" THEN {"SIGINT", "SIGTERM"} ELSE {"SIGINT"}

\* scenarios[...].subjects of subscriber.ts: the same list in both scenarios.
subjects == << <<"rpc","hello","world">>, <<"broad","rpc",">">> >>

\* BroadcastSubscriber.getSubscriptionPatterns
getSubscriptionPatterns(name, clusterName) ==
  IF clusterName = "main"
    THEN IF toLowerCase(name) = Str_bar
           THEN << <<"broad","rpc",">">>, <<"_INBOX",">">> >>
           ELSE << <<"rpc",">">>, <<"broad","rpc",">">>, <<"_INBOX",">">>,
                   <<"broadcast",">">>, <<"announce",">">>, <<"alert",">">> >>
    ELSE << <<">">> >>

\* The broker's subject matching: `*` covers one token, a final `>` one or more.
RECURSIVE covers(_, _)
covers(pattern, subject) ==
  IF pattern = <<>> THEN subject = <<>>
  ELSE IF subject = <<>> THEN FALSE
  ELSE IF Head(pattern) = ">" THEN Len(pattern) = 1
  ELSE IF Head(pattern) = "*" \/ Head(pattern) = Head(subject)
    THEN covers(Tail(pattern), Tail(subject))
  ELSE FALSE

\* Subjects the environment publishes on.
PublishedSubjects ==
  { <<"rpc","hello","world">>, <<"broad","rpc","hello","world">>,
    <<"broadcast","announcement">> }
\* msg.reply: empty for a plain publish, else the requester's own inbox subject.
NoReply == <<>>
InboxOf(id) == <<"_INBOX", id>>

\* What nc.subscribe(pattern) does: returns a Subscription, or throws.
RegistrationOutcomes == {"ok", "throws"}

\* At most MaxThrows registrations, and at most MaxThrows unsubscribes, of one
\* process throw.
MaxThrows == 1
Registrations(patterns) ==
  { oc \in [1..Len(patterns) -> RegistrationOutcomes] :
      Cardinality({ n \in 1..Len(patterns) : oc[n] = "throws" }) <= MaxThrows }

\* The for-of loop of NATSSubscriber.subscribe (stopOnThrow: the catch block
\* rethrows) and of BroadcastSubscriber.setupBroadcastSubscriptions (the catch
\* block only logs), from pattern j on.  acc collects this.subscriptions, the
\* failures logged and whether the loop was left by the throw.
RECURSIVE RegisterFrom(_, _, _, _, _)
RegisterFrom(j, patterns, oc, stopOnThrow, acc) ==
  IF j > Len(patterns) THEN acc
  ELSE IF oc[j] = "throws"
    THEN IF stopOnThrow
           THEN [acc EXCEPT !.failed = Append(@, patterns[j]), !.threw = TRUE]
           ELSE RegisterFrom(j + 1, patterns, oc, stopOnThrow,
                             [acc EXCEPT !.failed = Append(@, patterns[j])])
    ELSE RegisterFrom(j + 1, patterns, oc, stopOnThrow,
                      [acc EXCEPT !.subs = Append(@, [pattern |-> patterns[j],
                                                      state |-> "active"])])

subscribe(oc) ==
  RegisterFrom(1, subjects, oc, TRUE, [subs |-> <<>>, failed |-> <<>>, threw |-> FALSE])

setupBroadcastSubscriptions(patterns, oc) ==
  RegisterFrom(1, patterns, oc, FALSE, [subs |-> <<>>, failed |-> <<>>, threw |-> FALSE])

\* sub_sd.log: the steps the running gracefulShutdown() / close() and its
\* caller have completed, in order: one entry per `await sub.unsubscribe()`
\* that resumed (ok = FALSE: its throw was caught), one for the drain / close
\* of the connection, one for the `Final Statistics` line.
\* sub_sd.target: the connection this.nc referred to when its drain() /
\* close() was called.
NoShutdown == [pc |-> "idle", k |-> 0, cause |-> "none", log |-> <<>>, target |-> NULL]

InitSubscriber ==
  /\ sub_class \in SubClasses
  /\ sub_pc = "new"
  /\ sub_nc = "null"
  /\ sub_subscriptions = <<>>
  /\ sub_failed = <<>>
  /\ sub_inbox = <<>>
  /\ sub_messageCount = 0
  /\ sub_handled = <<>>
  /\ sub_replies = <<>>
  /\ sub_published = 0
  /\ sub_sd = NoShutdown
  /\ sub_exit = NoExit
  /\ sub_signal = NoSignal
  /\ sub_reported = NoReport
  /\ sub_again = NoShutdown

Alive == sub_exit = NoExit

\* this.nc of the subscriber process: NULL, or the connection it refers to
\* (subscriber.ts connects to its one configured server).
SubNc ==
  IF sub_class = "NATSSubscriber"
    THEN IF sub_nc = "null" THEN NULL ELSE "server"
    ELSE sel_nc[Self]

\* Between the return of gracefulShutdown() / close() and process.exit(0) only
\* the continuation of the awaiting handler runs.
Exiting == sub_sd.pc = "finished"

\* gracefulShutdown() / close() up to its first await: the unsubscribe loop
\* when there are subscriptions, else the close of the connection when there
\* is one, else straight to the end.
EnterShutdown(cause, subs, nc) ==
  IF Len(subs) > 0
    THEN [pc |-> "unsubscribing", k |-> 1, cause |-> cause, log |-> <<>>, target |-> NULL]
  ELSE IF nc # NULL
    THEN [pc |-> "closing", k |-> 0, cause |-> cause, log |-> <<>>, target |-> nc]
  ELSE [pc |-> "finished", k |-> 0, cause |-> cause, log |-> <<>>, target |-> NULL]

\* The `Final Statistics` line: gracefulShutdown() prints this.messageCount as
\* its last statement; the broadcast subscriber's SIGINT handler prints
\* getStats().messagesReceived before it calls close().
Reporting(sdNext) ==
  \/ sub_class = "NATSSubscriber" /\ sdNext.pc = "finished"
  \/ sub_class = "BroadcastSubscriber" /\ sub_sd.pc = "idle" /\ sdNext.pc # "idle"

ReportAt(sdNext) == IF Reporting(sdNext) THEN sub_messageCount ELSE sub_reported

\* The shutdown position sdNext with the `Final Statistics` line entered in its
\* log when this step prints it.
Logged(sdNext) ==
  IF Reporting(sdNext)
    THEN [sdNext EXCEPT !.log = Append(@, [op |-> "report", k |-> 0, ok |-> TRUE])]
    ELSE sdNext

\* Mutant: the unsubscribe loop is left at the first unsubscribe that throws.
AfterUnsubscribe_stopsAtFailure(ok, sd, n, nc) ==
  LET done == [sd EXCEPT !.log = Append(@, [op |-> "unsubscribe", k |-> sd.k, ok |-> ok])] IN
    IF ok /\ sd.k < n THEN [done EXCEPT !.k = @ + 1]
    ELSE IF nc # NULL THEN [done EXCEPT !.pc = "closing", !.k = 0, !.target = nc]
    ELSE [done EXCEPT !.pc = "finished", !.k = 0]

\* The unsubscribe loop after `await sub.unsubscribe()` of index sd.k resumed,
\* normally or through its catch block: the next subscription of the n, or
\* past the loop to the drain / close of the connection when there is one.
AfterUnsubscribe(ok, sd, n, nc) ==
  LET done == [sd EXCEPT !.log = Append(@, [op |-> "unsubscribe", k |-> sd.k, ok |-> ok])] IN
    IF sd.k < n THEN [done EXCEPT !.k = @ + 1]
    ELSE IF nc # NULL THEN [done EXCEPT !.pc = "closing", !.k = 0, !.target = nc]
    ELSE [done EXCEPT !.pc = "finished", !.k = 0]

\* After `await this.nc.drain()` / `await this.nc.close()` resumed (ok = FALSE:
\* the drain's rejection was caught and logged): the end of the function.
AfterClose(ok, sd) ==
  [sd EXCEPT !.pc = "finished", !.k = 0,
             !.log = Append(@, [op |-> IF sub_class = "NATSSubscriber" THEN "drain" ELSE "close",
                                k |-> 0, ok |-> ok])]

\* main(): the signal handlers are installed and the connect is awaited.
SubMainStart ==
  /\ Alive /\ sub_pc = "new"
  /\ sub_pc' = "connecting"
  /\ UNCHANGED <<sub_class, sub_nc, sub_subscriptions, sub_failed, sub_inbox,
                 sub_messageCount, sub_handled, sub_replies, sub_published, sub_sd,
                 sub_exit, sub_signal, sub_reported>>
  /\ UNCHANGED sub_again
  /\ UNCHANGED <<pubVars, selVars, orchVars, bpVars, tsVars>>

\* BroadcastSubscriber: one step of `await subscriber.connectWithFallback()`.
SubSelect ==
  /\ Alive /\ ~Exiting /\ sub_pc = "connecting" /\ sub_class = "BroadcastSubscriber"
  /\ SelectorStep(Self)

\* BroadcastSubscriber main, line 345: connectWithFallback returned false.
SubSelectExhausted ==
  /\ Alive /\ ~Exiting /\ sub_pc = "connecting" /\ sub_class = "BroadcastSubscriber"
  /\ sel_ret[Self] = "false"
  /\ sub_pc' = "exited"
  /\ sub_exit' = 1
  /\ UNCHANGED <<sub_class, sub_nc, sub_subscriptions, sub_failed, sub_inbox,
                 sub_messageCount, sub_handled, sub_replies, sub_published, sub_sd,
                 sub_signal, sub_reported>>
  /\ UNCHANGED sub_again
  /\ UNCHANGED <<pubVars, selVars, orchVars, bpVars, tsVars>>

\* The body of main()'s try block after the connect: every registration of the
\* loop, then the wait forever; or the throw that lands in main()'s catch.
SubRegister(reg) ==
  /\ sub_subscriptions' = reg.subs
  /\ sub_failed' = reg.failed
  /\ sub_inbox' = [k \in 1..Len(reg.subs) |-> <<>>]
  /\ sub_pc' = IF reg.threw THEN "failed" ELSE "listening"

\* NATSSubscriber: `await subscriber.connect()` resolves and subscribe() runs.
\* When subscribe() rethrows, main()'s catch calls cleanup(), which runs
\* gracefulShutdown() up to its first await.
SubConnectOk(oc) ==
  /\ Alive /\ ~Exiting /\ sub_pc = "connecting" /\ sub_class = "NATSSubscriber"
  /\ sub_sd.pc = "idle"
  /\ sub_nc' = "open"
  /\ SubRegister(subscribe(oc))
  /\ sub_sd' = IF subscribe(oc).threw
                 THEN EnterShutdown("catch", subscribe(oc).subs, "server")
                 ELSE sub_sd
  /\ UNCHANGED <<sub_class, sub_messageCount, sub_handled, sub_replies, sub_published,
                 sub_exit, sub_signal, sub_reported>>
  /\ UNCHANGED sub_again
  /\ UNCHANGED <<pubVars, selVars, orchVars, bpVars, tsVars>>

\* NATSSubscriber: `await subscriber.connect()` rejects: main()'s catch calls
\* cleanup(); with no subscription and no connection gracefulShutdown() runs
\* to its end.
SubConnectFail ==
  /\ Alive /\ ~Exiting /\ sub_pc = "connecting" /\ sub_class = "NATSSubscriber"
  /\ sub_sd.pc = "idle"
  /\ sub_pc' = "failed"
  /\ sub_sd' = Logged(EnterShutdown("catch", sub_subscriptions, NULL))
  /\ sub_reported' = ReportAt(EnterShutdown("catch", sub_subscriptions, NULL))
  /\ UNCHANGED <<sub_class, sub_nc, sub_subscriptions, sub_failed, sub_inbox,
                 sub_messageCount, sub_handled, sub_replies, sub_published,
                 sub_exit, sub_signal>>
  /\ UNCHANGED sub_again
  /\ UNCHANGED <<pubVars, selVars, orchVars, bpVars, tsVars>>

\* BroadcastSubscriber: connectWithFallback returned true and
\* setupBroadcastSubscriptions runs on the selected cluster.  When the SIGINT
\* handler has called close() on that very connection, nc.subscribe throws
\* for every pattern; a close() of the connection rejected before it does
\* not touch the one selected now.
SubSetup ==
  /\ Alive /\ ~Exiting /\ sub_pc = "connecting" /\ sub_class = "BroadcastSubscriber"
  /\ sel_ret[Self] = "true"
  /\ sel_nc[Self] # NULL /\ sel_connectedCluster[Self] # NULL
  /\ LET patterns == getSubscriptionPatterns(sel_user[Self], sel_connectedCluster[Self]) IN
       \E oc \in (IF sel_nc[Self] \in {sub_sd.target, sub_again.target}
                    THEN {[n \in 1..Len(patterns) |-> "throws"]}
                    ELSE Registrations(patterns)) :
         SubRegister(setupBroadcastSubscriptions(patterns, oc))
  /\ UNCHANGED <<sub_class, sub_nc, sub_messageCount, sub_handled, sub_replies,
                 sub_published, sub_sd, sub_exit, sub_signal, sub_reported>>
  /\ UNCHANGED sub_again
  /\ UNCHANGED <<pubVars, selVars, orchVars, bpVars, tsVars>>

\* Whether a published message carries a reply subject.  Only processMessages
\* of subscriber.ts reads msg.reply; handleBroadcastMessages never does, so the
\* broadcast subscriber is sent plain publishes.
RequestKinds == IF sub_class = "NATSSubscriber" THEN BOOLEAN ELSE {FALSE}

\* The environment publishes a message that reaches this process: the broker
\* hands a copy to every active subscription whose pattern covers the subject.
Deliver(subject, isRequest) ==
  /\ Alive /\ sub_published < MaxPublished
  /\ \E k \in DOMAIN sub_subscriptions :
       sub_subscriptions[k].state = "active" /\ covers(sub_subscriptions[k].pattern, subject)
  /\ sub_published' = sub_published + 1
  /\ sub_inbox' = [k \in DOMAIN sub_inbox |->
       IF sub_subscriptions[k].state = "active" /\ covers(sub_subscriptions[k].pattern, subject)
         THEN Append(sub_inbox[k],
                     [id |-> sub_published + 1, subject |-> subject,
                      reply |-> IF isRequest THEN InboxOf(sub_published + 1) ELSE NoReply,
                      afterSignal |-> sub_signal # NoSignal])
         ELSE sub_inbox[k]]
  /\ UNCHANGED <<sub_class, sub_pc, sub_nc, sub_subscriptions, sub_failed,
                 sub_messageCount, sub_handled, sub_replies, sub_sd, sub_exit,
                 sub_signal, sub_reported>>
  /\ UNCHANGED sub_again
  /\ UNCHANGED <<pubVars, selVars, orchVars, bpVars, tsVars>>

\* Mutant: the acknowledgement is published on the subject the request came in on.
ReplyTo_receivedSubject(msg) == msg.subject

\* The subject nc.publish sends the acknowledgement to: msg.reply.
ReplyTo(msg) == msg.reply

\* Mutant: two interleaved loops write the same value, so that the counter
\* stays where the first message left it.
NextCount_lostUpdate(count) == IF count = 0 THEN 1 ELSE count

\* `this.messageCount++`, the first statement of the loop body.
NextCount(count) == count + 1

\* Mutant: a reply that throws ends the loop of its subscription, so that no
\* later message of that subscription is handled.
HandleMessage_stopsAfterReplyFailure(k, replyOk) ==
  /\ Alive /\ ~Exiting
  /\ k \in DOMAIN sub_inbox /\ sub_inbox[k] # <<>>
  /\ \A n \in DOMAIN sub_handled : ~(sub_handled[n].sub = k /\ sub_handled[n].replyThrew)
  /\ LET msg == Head(sub_inbox[k]) IN
       /\ sub_inbox' = [sub_inbox EXCEPT ![k] = Tail(@)]
       /\ sub_messageCount' = NextCount(sub_messageCount)
       /\ sub_handled' = Append(sub_handled,
            [id |-> msg.id, subject |-> msg.subject, via |-> sub_subscriptions[k].pattern,
             number |-> NextCount(sub_messageCount), sub |-> k, reply |-> msg.reply,
             replyThrew |-> (sub_class = "NATSSubscriber" /\ msg.reply # NoReply /\ ~replyOk),
             arrivedAfterSignal |-> msg.afterSignal,
             startedAfterSignal |-> sub_signal # NoSignal])
       /\ sub_replies' =
            IF sub_class = "NATSSubscriber" /\ msg.reply # NoReply /\ replyOk
              THEN Append(sub_replies, [to |-> ReplyTo(msg), receivedSubject |-> msg.subject,
                                        subscribedVia |-> sub_subscriptions[k].pattern,
                                        request |-> msg.id, sub |-> k,
                                        number |-> NextCount(sub_messageCount)])
              ELSE sub_replies
  /\ UNCHANGED <<sub_class, sub_pc, sub_nc, sub_subscriptions, sub_failed, sub_published,
                 sub_sd, sub_exit, sub_signal, sub_reported>>
  /\ UNCHANGED sub_again
  /\ UNCHANGED <<pubVars, selVars, orchVars, bpVars, tsVars>>

\* One pass of the `for await` body of processMessages / handleBroadcastMessages
\* for subscription k: count, log, and (NATSSubscriber) reply to a request;
\* replyOk = FALSE is nc.publish throwing into the inner catch.
HandleMessage(k, replyOk) ==
  /\ Alive /\ ~Exiting
  /\ k \in DOMAIN sub_inbox /\ sub_inbox[k] # <<>>
  /\ LET msg == Head(sub_inbox[k]) IN
       /\ sub_inbox' = [sub_inbox EXCEPT ![k] = Tail(@)]
       /\ sub_messageCount' = NextCount(sub_messageCount)
       /\ sub_handled' = Append(sub_handled,
            [id |-> msg.id, subject |-> msg.subject, via |-> sub_subscriptions[k].pattern,
             number |-> NextCount(sub_messageCount), sub |-> k, reply |-> msg.reply,
             replyThrew |-> (sub_class = "NATSSubscriber" /\ msg.reply # NoReply /\ ~replyOk),
             arrivedAfterSignal |-> msg.afterSignal,
             startedAfterSignal |-> sub_signal # NoSignal])
       /\ sub_replies' =
            IF sub_class = "NATSSubscriber" /\ msg.reply # NoReply /\ replyOk
              THEN Append(sub_replies, [to |-> ReplyTo(msg), receivedSubject |-> msg.subject,
                                        subscribedVia |-> sub_subscriptions[k].pattern,
                                        request |-> msg.id, sub |-> k,
                                        number |-> NextCount(sub_messageCount)])
              ELSE sub_replies
  /\ UNCHANGED <<sub_class, sub_pc, sub_nc, sub_subscriptions, sub_failed, sub_published,
                 sub_sd, sub_exit, sub_signal, sub_reported>>
  /\ UNCHANGED sub_again
  /\ UNCHANGED <<pubVars, selVars, orchVars, bpVars, tsVars>>

\* A signal the process has a handler for arrives while main() is connecting
\* or listening: cleanup() (subscriber.ts) or the SIGINT handler (broadcast
\* subscriber) runs up to the first await of gracefulShutdown() / close().
ShutdownBegin(sig) ==
  /\ Alive /\ sub_sd.pc = "idle"
  /\ sub_pc \in {"connecting", "listening"}
  /\ sig \in HandledSignals(sub_class)
  /\ sub_signal' = sig
  /\ sub_sd' = Logged(EnterShutdown(sig, sub_subscriptions, SubNc))
  /\ sub_reported' = ReportAt(EnterShutdown(sig, sub_subscriptions, SubNc))
  /\ UNCHANGED <<sub_class, sub_pc, sub_nc, sub_subscriptions, sub_failed, sub_inbox,
                 sub_messageCount, sub_handled, sub_replies, sub_published, sub_exit>>
  /\ UNCHANGED sub_again
  /\ UNCHANGED <<pubVars, selVars, orchVars, bpVars, tsVars>>

\* A signal without a handler arrives: the default action ends the process on
\* the spot, whatever it was doing.
SignalKills(sig) ==
  /\ Alive /\ sub_pc \in {"connecting", "listening"}
  /\ sig \in Signals \ HandledSignals(sub_class)
  /\ sub_signal' = IF sub_signal = NoSignal THEN sig ELSE sub_signal
  /\ sub_pc' = "exited"
  /\ sub_exit' = KilledBySigterm
  /\ UNCHANGED <<sub_class, sub_nc, sub_subscriptions, sub_failed, sub_inbox,
                 sub_messageCount, sub_handled, sub_replies, sub_published, sub_sd,
                 sub_reported>>
  /\ UNCHANGED sub_again
  /\ UNCHANGED <<pubVars, selVars, orchVars, bpVars, tsVars>>

\* `await sub.unsubscribe()` of loop index k resumes (a throw is caught and
\* logged / ignored): next subscription, or on to closing the connection.
ShutdownUnsubscribe(ok) ==
  /\ Alive /\ sub_sd.pc = "unsubscribing"
  /\ ~ok => Cardinality({ n \in 1..(sub_sd.k - 1) :
                           sub_subscriptions[n].state = "active" }) < MaxThrows
  /\ sub_subscriptions' = IF ok
       THEN [sub_subscriptions EXCEPT ![sub_sd.k].state = "unsubscribed"]
       ELSE sub_subscriptions
  /\ LET sdNext == AfterUnsubscribe(ok, sub_sd, Len(sub_subscriptions), SubNc) IN
       /\ sub_sd' = Logged(sdNext)
       /\ sub_reported' = ReportAt(sdNext)
  /\ UNCHANGED <<sub_class, sub_pc, sub_nc, sub_failed, sub_inbox, sub_messageCount,
                 sub_handled, sub_replies, sub_published, sub_exit, sub_signal>>
  /\ UNCHANGED sub_again
  /\ UNCHANGED <<pubVars, selVars, orchVars, bpVars, tsVars>>

\* `await this.nc.drain()` (NATSSubscriber) / `await this.nc.close()`
\* (BroadcastSubscriber) settles.  ok: every subscription is gone at the
\* broker and the connection is closed.  ~ok, NATSSubscriber: the drain
\* rejected (the connection was already closed or draining) and
\* gracefulShutdown's catch logged it.  ~ok, BroadcastSubscriber: close() has
\* no catch, so the rejection leaves close() and the SIGINT handler, whose
\* process.exit(0) is skipped; the rejection is handled nowhere and node
\* ends the process with exit code 1.
ShutdownClose(ok) ==
  /\ Alive /\ sub_sd.pc = "closing"
  /\ sub_subscriptions' = IF ok /\ sub_sd.target = SubNc
       THEN [k \in DOMAIN sub_subscriptions |->
               [sub_subscriptions[k] EXCEPT !.state = "unsubscribed"]]
       ELSE sub_subscriptions
  /\ IF sub_class = "NATSSubscriber"
       THEN sub_nc' = (IF ok THEN "closed" ELSE sub_nc) /\ UNCHANGED selVars
       ELSE /\ sel_open' = [sel_open EXCEPT ![Self] = IF ok THEN @ \ {sub_sd.target} ELSE @]
            /\ UNCHANGED <<sub_nc, sel_class, sel_user, sel_nc, sel_connectedCluster,
                           sel_i, sel_pc, sel_ret, sel_attempts>>
  /\ LET uncaught == sub_class = "BroadcastSubscriber" /\ ~ok
         sdNext == IF uncaught THEN [AfterClose(ok, sub_sd) EXCEPT !.pc = "rejected"]
                   ELSE AfterClose(ok, sub_sd) IN
       /\ sub_sd' = Logged(sdNext)
       /\ sub_reported' = ReportAt(sdNext)
       /\ sub_pc' = IF uncaught THEN "exited" ELSE sub_pc
       /\ sub_exit' = IF uncaught THEN 1 ELSE sub_exit
  /\ UNCHANGED <<sub_class, sub_failed, sub_inbox, sub_messageCount,
                 sub_handled, sub_replies, sub_published, sub_signal>>
  /\ UNCHANGED sub_again
  /\ UNCHANGED <<pubVars, orchVars, bpVars, tsVars>>

\* process.exit(0) at the end of cleanup() / of the SIGINT handler.  In the
\* catch of subscriber.ts's main() the exit(1) after `await cleanup()` is
\* never reached: cleanup() itself ends the process.
ShutdownExit ==
  /\ Alive /\ sub_sd.pc = "finished"
  /\ sub_pc' = "exited"
  /\ sub_exit' = 0
  /\ UNCHANGED <<sub_class, sub_nc, sub_subscriptions, sub_failed, sub_inbox,
                 sub_messageCount, sub_handled, sub_replies, sub_published, sub_sd,
                 sub_signal, sub_reported>>
  /\ UNCHANGED sub_again
  /\ UNCHANGED <<pubVars, selVars, orchVars, bpVars, tsVars>>

\* A second trigger while the first gracefulShutdown() / close() is still
\* awaiting: neither cleanup (subscriber.ts) nor the SIGINT handler of the
\* broadcast subscriber has a guard, so the handler runs again, on the same
\* this.subscriptions and this.nc, up to its first await.  The broadcast
\* subscriber's handler prints its `Final Statistics` first; a run that finds
\* nothing to await goes straight on to process.exit(0).
ShutdownAgain(sig) ==
  /\ Alive /\ ~Exiting
  /\ sig \in HandledSignals(sub_class)
  /\ sub_sd.pc \in {"unsubscribing", "closing"}
  /\ sub_again.pc = "idle"
  /\ LET entered == EnterShutdown(sig, sub_subscriptions, SubNc)
         reports == sub_class = "BroadcastSubscriber" \/ entered.pc = "finished" IN
       /\ sub_again' = IF reports
            THEN [entered EXCEPT !.log = Append(@, [op |-> "report", k |-> 0, ok |-> TRUE])]
            ELSE entered
       /\ sub_reported' = IF reports THEN sub_messageCount ELSE sub_reported
       /\ sub_pc' = IF entered.pc = "finished" THEN "exited" ELSE sub_pc
       /\ sub_exit' = IF entered.pc = "finished" THEN 0 ELSE sub_exit
  /\ UNCHANGED <<sub_class, sub_nc, sub_subscriptions, sub_failed, sub_inbox,
                 sub_messageCount, sub_handled, sub_replies, sub_published, sub_sd>>
  /\ sub_signal' = IF sub_signal = NoSignal THEN sig ELSE sub_signal
  /\ UNCHANGED <<pubVars, selVars, orchVars, bpVars, tsVars>>

\* The await the second run is at resumes: `unsubscribe()` of its loop index,
\* or the drain() / close() of the connection this.nc referred to when it was
\* called (ok = FALSE: the throw / rejection was caught).  gracefulShutdown()
\* then prints its `Final Statistics`; when the function returns, the handler
\* goes on to process.exit(0).  A rejecting close() of the broadcast
\* subscriber is caught nowhere: node ends the process with exit code 1.
ShutdownAgainResume(ok) ==
  /\ Alive /\ ~Exiting
  /\ sub_again.pc \in {"unsubscribing", "closing"}
  /\ (~ok /\ sub_again.pc = "unsubscribing") =>
       Cardinality({ n \in DOMAIN sub_again.log : ~sub_again.log[n].ok }) < MaxThrows
  /\ LET unsub == sub_again.pc = "unsubscribing"
         uncaught == sub_class = "BroadcastSubscriber" /\ ~unsub /\ ~ok
         sdNext == IF unsub
                     THEN AfterUnsubscribe(ok, sub_again, Len(sub_subscriptions), SubNc)
                   ELSE IF uncaught
                     THEN [AfterClose(ok, sub_again) EXCEPT !.pc = "rejected"]
                   ELSE AfterClose(ok, sub_again) IN
       /\ sub_subscriptions' =
            IF ok /\ unsub
              THEN [sub_subscriptions EXCEPT ![sub_again.k].state = "unsubscribed"]
            ELSE IF ok /\ sub_again.target = SubNc
              THEN [k \in DOMAIN sub_subscriptions |->
                      [sub_subscriptions[k] EXCEPT !.state = "unsubscribed"]]
            ELSE sub_subscriptions
       /\ sub_nc' = IF sub_class = "NATSSubscriber" /\ ~unsub /\ ok THEN "closed" ELSE sub_nc
       /\ sel_open' = IF sub_class = "BroadcastSubscriber" /\ ~unsub /\ ok
                        THEN [sel_open EXCEPT ![Self] = @ \ {sub_again.target}]
                        ELSE sel_open
       /\ sub_again' = Logged(sdNext)
       /\ sub_reported' = ReportAt(sdNext)
       /\ sub_pc' = IF sdNext.pc \in {"finished", "rejected"} THEN "exited" ELSE sub_pc
       /\ sub_exit' = IF sdNext.pc = "finished" THEN 0
                      ELSE IF sdNext.pc = "rejected" THEN 1 ELSE sub_exit
  /\ UNCHANGED <<sub_class, sub_failed, sub_inbox, sub_messageCount, sub_handled,
                 sub_replies, sub_published, sub_sd, sub_signal>>
  /\ UNCHANGED <<sel_class, sel_user, sel_nc, sel_connectedCluster, sel_i, sel_pc,
                 sel_ret, sel_attempts>>
  /\ UNCHANGED <<pubVars, orchVars, bpVars, tsVars>>

SubscriberNext ==
  \/ SubMainStart
  \/ SubSelect
  \/ SubSelectExhausted
  \/ \E oc \in Registrations(subjects) : SubConnectOk(oc)
  \/ SubConnectFail
  \/ SubSetup
  \/ \E s \in PublishedSubjects, isRequest \in RequestKinds : Deliver(s, isRequest)
  \/ \E k \in DOMAIN sub_inbox, ok \in BOOLEAN : HandleMessage(k, ok)
  \/ \E sig \in Signals : ShutdownBegin(sig)
  \/ \E sig \in Signals : SignalKills(sig)
  \/ \E ok \in BOOLEAN : ShutdownUnsubscribe(ok)
  \/ \E ok \in BOOLEAN : ShutdownClose(ok)
  \/ ShutdownExit

\* The subscriber process when a shutdown trigger can arrive a second time.
SubscriberSignalsNext ==
  \/ SubMainStart
  \/ SubSelect
  \/ SubSelectExhausted
  \/ \E oc \in Registrations(subjects) : SubConnectOk(oc)
  \/ SubConnectFail
  \/ SubSetup
  \/ \E s \in PublishedSubjects, isRequest \in RequestKinds : Deliver(s, isRequest)
  \/ \E k \in DOMAIN sub_inbox, ok \in BOOLEAN : HandleMessage(k, ok)
  \/ \E sig \in Signals : ShutdownBegin(sig)
  \/ \E sig \in Signals : SignalKills(sig)
  \/ \E ok \in BOOLEAN : ShutdownUnsubscribe(ok)
  \/ \E ok \in BOOLEAN : ShutdownClose(ok)
  \/ ShutdownExit
  \/ \E sig \in Signals : ShutdownAgain(sig)
  \/ \E ok \in BOOLEAN : ShutdownAgainResume(ok)

(***************************************************************************)
(* Scenario3TestOrchestrator (scenario3-test): runCompleteTest spawns the  *)
(* broadcast subscribers, runs the broadcast test cases with one publisher *)
(* child each, prints the summary and stops its children.  The children    *)
(* are the environment: a broadcast-subscriber child prints its lines, a   *)
(* broadcast-publisher child connects, publishes and closes on its own.    *)
(***************************************************************************)
\* Signals delivered to the orchestrator in one run.
MaxSignals == 1

\* startAllSubscribers: the `subscribers` array.
subscribers ==
  << [user |-> "foo", expectedCluster |-> "main"],
     [user |-> "bar", expectedCluster |-> "leaf"],
     [user |-> "mmm", expectedCluster |-> "main"] >>

\* runBroadcastTests: the `testCases` array.
testCases ==
  << [subject |-> <<"rpc","hello","world">>, expectedReceivers |-> {"foo", "mmm"}],
     [subject |-> <<"broad","rpc","hello","world">>,
      expectedReceivers |-> {"foo", "bar", "mmm"}],
     [subject |-> <<"broadcast","announcement">>,
      expectedReceivers |-> {"foo", "bar", "mmm"}] >>

\* BroadcastPublisher.testBroadcastPatterns: the subjects of its own test cases.
builtinSubjects ==
  << <<"rpc","hello","world">>, <<"broad","rpc","hello","world">>,
     <<"broadcast","announcement">>, <<"alert","system","maintenance">> >>

\* The arguments runBroadcastTests spawns broadcast-publisher.ts with.
publisherArgs == <<"foo", "main">>

\* main() of broadcast-publisher.ts: the mode the arguments select.  Only the
\* interactive mode reads commands from stdin.
PublisherMode(args) ==
  IF \E n \in DOMAIN args : args[n] \in {"--test", "-t"} THEN "test"
  ELSE IF \E n \in DOMAIN args : args[n] \in {"--interactive", "-i"} THEN "interactive"
  ELSE "demo"

\* Name of a user as the role classes spell it.
ConfigName(user) ==
  CASE user = "foo" -> Str_Foo
    [] user = "bar" -> Str_Bar
    [] user = "mmm" -> Str_MMM

\* With both clusters reachable (verifyClusters passed): the cluster
\* BroadcastSubscriber.connectWithFallback ends on.
SelectedCluster(user) ==
  IF testSubscriptionCapability(ConfigName(user), clusters[1]) THEN clusters[1]
  ELSE clusters[2]

\* Words of the lines a broadcast-subscriber child prints while it selects its
\* cluster, in order: per attempt the TLS line, then the verdict line.
SubscriberLines(user) ==
  IF SelectedCluster(user) = "main"
    THEN << <<"TLS","connection","established","to","main","cluster">>,
            <<"Successfully","validated","permissions","on","main","cluster">> >>
    ELSE << <<"TLS","connection","established","to","main","cluster">>,
            <<"Permission","validation","failed","on","main","cluster">>,
            <<"TLS","connection","established","to","leaf","cluster">>,
            <<"Successfully","validated","permissions","on","leaf","cluster">> >>

\* output.match(/connected to (\w+) cluster/): the captured word, or NULL.
ClusterMatch(line) ==
  IF \E k \in 1..(Len(line) - 3) :
       line[k] = "connected" /\ line[k + 1] = "to" /\ line[k + 3] = "cluster"
    THEN line[(CHOOSE k \in 1..(Len(line) - 3) :
                 line[k] = "connected" /\ line[k + 1] = "to" /\ line[k + 3] = "cluster") + 2]
    ELSE NULL

\* The stdout handler of startAllSubscribers applied to one line of child j.
TrackConnection(results, j, line) ==
  IF includes(line, <<"Successfully","connected","to">>) /\ ClusterMatch(line) # NULL
    THEN Append(results,
           [type |-> "connection", user |-> subscribers[j].user,
            expectedCluster |-> subscribers[j].expectedCluster,
            actualCluster |-> ClusterMatch(line),
            success |-> (ClusterMatch(line) = subscribers[j].expectedCluster)])
    ELSE results

\* spawn(...) of the publisher child of a test case; the two stdin writes
\* stay unread unless the child runs in interactive mode.
NewPublisherChild(i) ==
  [test |-> i, mode |-> PublisherMode(publisherArgs), state |-> "connecting",
   sent |-> 0, received |-> {}, exitCode |-> NoExit, after |-> orch_signal.cleanup]

InitOrchestrator ==
  /\ orch_pc = "new"
  /\ orch_processes = <<>>
  /\ orch_testResults = <<>>
  /\ orch_i = 0
  /\ orch_wait = "none"
  /\ orch_publishers = <<>>
  /\ orch_log = <<>>
  /\ orch_signal = [received |-> 0, cleanup |-> "none"]

\* Subscriber child j is up, has printed its last line and holds its subscriptions.
SubscriberReady(j) ==
  /\ j \in DOMAIN orch_processes
  /\ orch_processes[j].alive
  /\ orch_processes[j].printed = Len(SubscriberLines(orch_processes[j].user))

\* The subscriber children a message on `subject` reaches.
ReceiversOf(subject) ==
  { orch_processes[j].user : j \in { n \in DOMAIN orch_processes :
      /\ SubscriberReady(n)
      /\ LET patterns == getSubscriptionPatterns(ConfigName(orch_processes[n].user),
                                                 SelectedCluster(orch_processes[n].user)) IN
           \E m \in DOMAIN patterns : covers(patterns[m], subject) } }

\* runCompleteTest() up to `await fetch(...)` of verifyClusters.
OrchRun ==
  /\ orch_pc = "new"
  /\ orch_pc' = "verifying"
  /\ UNCHANGED <<orch_processes, orch_testResults, orch_i, orch_wait, orch_publishers,
                 orch_log>>
  /\ UNCHANGED orch_signal
  /\ UNCHANGED <<pubVars, selVars, subVars, bpVars, tsVars>>

\* cleanup(): SIGTERM to every child of this.processes not killed yet, then
\* the one second timer.  A broadcast-subscriber child has no SIGTERM handler.
KillProcesses(processes) ==
  [j \in DOMAIN processes |->
     IF processes[j].killed THEN processes[j]
     ELSE [processes[j] EXCEPT !.killed = TRUE, !.alive = FALSE,
                               !.signals = Append(@, "SIGTERM")]]

\* verifyClusters resolves: both clusters answer, or it throws into the catch
\* of runCompleteTest and the finally block calls cleanup().
OrchVerifyResolve(ok) ==
  /\ orch_pc = "verifying"
  /\ IF ok
       THEN orch_pc' = "startingSubscribers" /\ UNCHANGED orch_processes
       ELSE orch_pc' = "cleanup" /\ orch_processes' = KillProcesses(orch_processes)
  /\ UNCHANGED <<orch_testResults, orch_i, orch_wait, orch_publishers, orch_log>>
  /\ UNCHANGED orch_signal
  /\ UNCHANGED <<pubVars, selVars, subVars, bpVars, tsVars>>

\* startAllSubscribers: one loop iteration, spawn and the wait of one second.
OrchStartSubscriber ==
  /\ orch_pc = "startingSubscribers"
  /\ Len(orch_processes) < Len(subscribers)
  /\ orch_processes' = Append(orch_processes,
       [name |-> <<"subscriber", subscribers[Len(orch_processes) + 1].user>>,
        type |-> "subscriber",
        user |-> subscribers[Len(orch_processes) + 1].user,
        expectedCluster |-> subscribers[Len(orch_processes) + 1].expectedCluster,
        alive |-> TRUE, killed |-> FALSE, signals |-> <<>>, printed |-> 0,
        after |-> orch_signal.cleanup])
  /\ UNCHANGED <<orch_pc, orch_testResults, orch_i, orch_wait, orch_publishers, orch_log>>
  /\ UNCHANGED orch_signal
  /\ UNCHANGED <<pubVars, selVars, subVars, bpVars, tsVars>>

\* startAllSubscribers returns; waitForSubscribers sets its five second timer.
OrchSubscribersStarted ==
  /\ orch_pc = "startingSubscribers"
  /\ Len(orch_processes) = Len(subscribers)
  /\ orch_pc' = "waitingForSubscribers"
  /\ UNCHANGED <<orch_processes, orch_testResults, orch_i, orch_wait, orch_publishers,
                 orch_log>>
  /\ UNCHANGED orch_signal
  /\ UNCHANGED <<pubVars, selVars, subVars, bpVars, tsVars>>

\* The stdout handler of child j runs for the child's next line.
SubscriberChildOutput(j) ==
  /\ orch_pc \notin {"new", "done"}
  /\ j \in DOMAIN orch_processes
  /\ orch_processes[j].alive
  /\ orch_processes[j].printed < Len(SubscriberLines(orch_processes[j].user))
  /\ orch_processes' = [orch_processes EXCEPT ![j].printed = @ + 1]
  /\ orch_testResults' = TrackConnection(orch_testResults, j,
       SubscriberLines(orch_processes[j].user)[orch_processes[j].printed + 1])
  /\ UNCHANGED <<orch_pc, orch_i, orch_wait, orch_publishers, orch_log>>
  /\ UNCHANGED orch_signal
  /\ UNCHANGED <<pubVars, selVars, subVars, bpVars, tsVars>>

\* runBroadcastTests, top of one loop iteration: the publisher child of test
\* case i is spawned, the test message is written to its stdin, and the wait
\* for its close event or the three second timer begins.
StartTestCase(i) ==
  /\ orch_i' = i
  /\ orch_publishers' = Append(orch_publishers, NewPublisherChild(i))
  /\ orch_wait' = "closeOrTimeout"

\* The five second timer of waitForSubscribers fires: first test case.
OrchSubscribersWaited ==
  /\ orch_pc = "waitingForSubscribers"
  /\ orch_pc' = "testing"
  /\ StartTestCase(1)
  /\ UNCHANGED <<orch_processes, orch_testResults, orch_log>>
  /\ UNCHANGED orch_signal
  /\ UNCHANGED <<pubVars, selVars, subVars, bpVars, tsVars>>

\* The wait of the running test case ends, by the child's close event or by
\* the timer; `Test message published` is printed and the two second pause
\* begins.
OrchPublishWaitOver(by) ==
  /\ orch_pc = "testing" /\ orch_wait = "closeOrTimeout"
  /\ by \in {"close", "timeout"}
  /\ by = "close" => orch_publishers[orch_i].state = "closed"
  /\ orch_log' = Append(orch_log, [test |-> orch_i, line |-> "Test message published",
                                   by |-> by])
  /\ orch_wait' = "pause"
  /\ UNCHANGED <<orch_pc, orch_processes, orch_testResults, orch_i, orch_publishers>>
  /\ UNCHANGED orch_signal
  /\ UNCHANGED <<pubVars, selVars, subVars, bpVars, tsVars>>

\* The pause ends: the next test case starts, or runBroadcastTests returns and
\* showResultsSummary prints.
OrchPauseOver ==
  /\ orch_pc = "testing" /\ orch_wait = "pause"
  /\ IF orch_i < Len(testCases)
       THEN StartTestCase(orch_i + 1) /\ UNCHANGED orch_pc
       ELSE /\ orch_pc' = "summary"
            /\ orch_wait' = "none"
            /\ UNCHANGED <<orch_i, orch_publishers>>
  /\ UNCHANGED <<orch_processes, orch_testResults, orch_log>>
  /\ UNCHANGED orch_signal
  /\ UNCHANGED <<pubVars, selVars, subVars, bpVars, tsVars>>

\* showResultsSummary returns; the finally block calls cleanup().
OrchSummaryDone ==
  /\ orch_pc = "summary"
  /\ orch_pc' = "cleanup"
  /\ orch_processes' = KillProcesses(orch_processes)
  /\ UNCHANGED <<orch_testResults, orch_i, orch_wait, orch_publishers, orch_log>>
  /\ UNCHANGED orch_signal
  /\ UNCHANGED <<pubVars, selVars, subVars, bpVars, tsVars>>

\* The one second timer of cleanup() fires: `Cleanup completed`.
OrchCleanupDone ==
  /\ orch_pc = "cleanup"
  /\ orch_pc' = "done"
  /\ UNCHANGED <<orch_processes, orch_testResults, orch_i, orch_wait, orch_publishers,
                 orch_log>>
  /\ UNCHANGED orch_signal
  /\ UNCHANGED <<pubVars, selVars, subVars, bpVars, tsVars>>

\* Publisher child p: publisher.connect('main') resolves; false is exit(1).
PublisherChildConnect(p, ok) ==
  /\ p \in DOMAIN orch_publishers
  /\ orch_publishers[p].state = "connecting"
  /\ orch_publishers' = [orch_publishers EXCEPT ![p] =
       IF ok THEN [@ EXCEPT !.state = "publishing"]
       ELSE [@ EXCEPT !.state = "closed", !.exitCode = 1]]
  /\ UNCHANGED <<orch_pc, orch_processes, orch_testResults, orch_i, orch_wait, orch_log>>
  /\ UNCHANGED orch_signal
  /\ UNCHANGED <<pubVars, selVars, subVars, bpVars, tsVars>>

\* Publisher child p in demo mode: the next publish of testBroadcastPatterns,
\* followed by its two second wait.  `received` keeps who got the message on
\* the subject of the child's test case.
PublisherChildPublish(p) ==
  /\ p \in DOMAIN orch_publishers
  /\ orch_publishers[p].state = "publishing"
  /\ orch_publishers[p].mode \in {"demo", "test"}
  /\ orch_publishers[p].sent < Len(builtinSubjects)
  /\ LET s == builtinSubjects[orch_publishers[p].sent + 1] IN
       orch_publishers' = [orch_publishers EXCEPT
         ![p].sent = @ + 1,
         ![p].received = IF s = testCases[p].subject THEN @ \cup ReceiversOf(s) ELSE @]
  /\ UNCHANGED <<orch_pc, orch_processes, orch_testResults, orch_i, orch_wait, orch_log>>
  /\ UNCHANGED orch_signal
  /\ UNCHANGED <<pubVars, selVars, subVars, bpVars, tsVars>>

\* Publisher child p: testBroadcastPatterns returned, publisher.close(), end
\* of main(): the child's close event.
PublisherChildClose(p) ==
  /\ p \in DOMAIN orch_publishers
  /\ orch_publishers[p].state = "publishing"
  /\ orch_publishers[p].sent = Len(builtinSubjects)
  /\ orch_publishers' = [orch_publishers EXCEPT ![p].state = "closed", ![p].exitCode = 0]
  /\ UNCHANGED <<orch_pc, orch_processes, orch_testResults, orch_i, orch_wait, orch_log>>
  /\ UNCHANGED orch_signal
  /\ UNCHANGED <<pubVars, selVars, subVars, bpVars, tsVars>>

\* SIGINT or SIGTERM arrives at the orchestrator: the handler the constructor
\* installed calls cleanup(), which signals the children of this.processes
\* and sets its one second timer.  The handler does nothing else.
OrchSignal(sig) ==
  /\ sig \in Signals
  /\ orch_signal.received < MaxSignals
  /\ orch_signal' = [received |-> orch_signal.received + 1, cleanup |-> "running"]
  /\ orch_processes' = KillProcesses(orch_processes)
  /\ UNCHANGED <<orch_pc, orch_testResults, orch_i, orch_wait, orch_publishers, orch_log>>
  /\ UNCHANGED <<pubVars, selVars, subVars, bpVars, tsVars>>

\* The timer of the handler's cleanup() fires: `Cleanup completed`.
OrchSignalCleanupDone ==
  /\ orch_signal.cleanup = "running"
  /\ orch_signal' = [orch_signal EXCEPT !.cleanup = "completed"]
  /\ UNCHANGED <<orch_pc, orch_processes, orch_testResults, orch_i, orch_wait,
                 orch_publishers, orch_log>>
  /\ UNCHANGED <<pubVars, selVars, subVars, bpVars, tsVars>>

OrchestratorNext ==
  \/ OrchRun
  \/ \E ok \in BOOLEAN : OrchVerifyResolve(ok)
  \/ OrchStartSubscriber
  \/ OrchSubscribersStarted
  \/ \E j \in 1..Len(subscribers) : SubscriberChildOutput(j)
  \/ OrchSubscribersWaited
  \/ \E by \in {"close", "timeout"} : OrchPublishWaitOver(by)
  \/ OrchPauseOver
  \/ OrchSummaryDone
  \/ OrchCleanupDone
  \/ \E p \in 1..Len(testCases), ok \in BOOLEAN : PublisherChildConnect(p, ok)
  \/ \E p \in 1..Len(testCases) : PublisherChildPublish(p)
  \/ \E p \in 1..Len(testCases) : PublisherChildClose(p)

\* The orchestrator while signals are delivered to it.  The publisher children
\* are left to themselves: every wait for one ends by its timer.
OrchestratorSignalNext ==
  \/ OrchRun
  \/ \E ok \in BOOLEAN : OrchVerifyResolve(ok)
  \/ OrchStartSubscriber
  \/ OrchSubscribersStarted
  \/ \E j \in 1..Len(subscribers) : SubscriberChildOutput(j)
  \/ OrchSubscribersWaited
  \/ \E by \in {"close", "timeout"} : OrchPublishWaitOver(by)
  \/ OrchPauseOver
  \/ OrchSummaryDone
  \/ OrchCleanupDone
  \/ \E sig \in Signals : OrchSignal(sig)
  \/ OrchSignalCleanupDone

(***************************************************************************)
(* BroadcastPublisher process (broadcast-publisher.ts): main() connects,   *)
(* runs the mode its arguments select and closes the connection.  In the   *)
(* interactive mode the input lines are handled by the callback of         *)
(* rl.question, which runs whenever a line arrives.                        *)
(***************************************************************************)
MaxLines == 2

\* process.argv.slice(2): user, cluster and at most one mode flag.
BpArgs ==
  { <<u, c>> \o flag : u \in {"foo", "bar", "mmm"}, c \in {"main", "leaf"},
                       flag \in { <<>>, <<"--test">>, <<"--interactive">> } }

\* Lines the user types, as their characters.  A character that has no
\* escape in a string here is written as its code point: "U+00A0" is the one
\* character NO-BREAK SPACE.
InteractiveInputs ==
  { <<"e","x","i","t">>,
    <<" ","q","u","i","t"," ">>,
    <<"\f","e","x","i","t">>,
    <<"U+00A0","q","u","i","t","U+000B","\t">>,
    <<"e","x"," ","i","t">>,
    <<"t","e","s","t">>,
    <<"s","t","a","t","u","s">>,
    <<"h","e","l","l","o">>,
    <<"r","p","c",":","h","i">>,
    <<"R","P","C",":","h","i">>,
    <<"B","r","o","a","d",":","h","i">>,
    <<"B","R","O","A","D","C","A","S","T",":","h","i">>,
    <<"A","l","e","r","t",":","h","i">>,
    <<"r","p","c",":">>,
    <<"m","y",".","s","u","b","j","e","c","t",":","a",":","b">> }

\* String.prototype.trim: the string without its leading and trailing white
\* space and line terminators, which in ECMAScript are TAB, VT, FF, SP, NBSP,
\* ZWNBSP, every other character of category Zs, LF, CR, LS and PS.
trim(s) ==
  LET WhiteSpace == { "\t", "U+000B", "\f", " ", "U+00A0", "U+FEFF", "U+1680",
                      "U+2000", "U+2001", "U+2002", "U+2003", "U+2004", "U+2005",
                      "U+2006", "U+2007", "U+2008", "U+2009", "U+200A", "U+202F",
                      "U+205F", "U+3000" }
      LineTerminator == { "\n", "\r", "U+2028", "U+2029" }
      inked == { n \in DOMAIN s : s[n] \notin WhiteSpace \cup LineTerminator } IN
    IF inked = {} THEN << >>
    ELSE SubSeq(s, CHOOSE n \in inked : \A m \in inked : n <= m,
                   CHOOSE n \in inked : \A m \in inked : m <= n)

\* String.prototype.split(separator, limit) for a one-character separator:
\* the pieces between the separators, at most `limit` of them.
RECURSIVE split(_, _, _)
split(s, separator, limit) ==
  IF limit = 0 THEN << >>
  ELSE IF \A n \in DOMAIN s : s[n] # separator THEN << s >>
  ELSE LET k == CHOOSE n \in DOMAIN s :
                  s[n] = separator /\ \A m \in 1..(n - 1) : s[m] # separator IN
         << SubSeq(s, 1, k - 1) >> \o split(SubSeq(s, k + 1, Len(s)), separator, limit - 1)

\* The switch of interactiveMode on command.toLowerCase(): the subject a
\* command stands for; the default is the command as typed.
CommandSubject(command) ==
  CASE toLowerCase(command) = <<"r","p","c">> ->
         <<"r","p","c",".","h","e","l","l","o",".","w","o","r","l","d">>
    [] toLowerCase(command) = <<"b","r","o","a","d">> ->
         <<"b","r","o","a","d",".","r","p","c",".","h","e","l","l","o",".","w","o","r","l","d">>
    [] toLowerCase(command) = <<"b","r","o","a","d","c","a","s","t">> ->
         <<"b","r","o","a","d","c","a","s","t",".","a","n","n","o","u","n","c","e","m","e","n","t">>
    [] toLowerCase(command) = <<"a","l","e","r","t">> ->
         <<"a","l","e","r","t",".","s","y","s","t","e","m">>
    [] OTHER -> command

\* this.nc.publish(...) / flush() as the connection's state lets it end.
BpPublish(subject) ==
  [subject |-> subject, nc |-> bp_nc,
   result |-> IF bp_nc = "open" THEN "published" ELSE "failed"]

InitBroadcastPublisher ==
  /\ bp_args \in BpArgs
  /\ bp_pc = "connecting"
  /\ bp_nc = "null"
  /\ bp_rl = "none"
  /\ bp_ops = <<>>
  /\ bp_lines = 0

\* `await publisher.connect(clusterName)` resolves.  false: exit(1).  true in
\* interactive mode: interactiveMode() sets up readline, asks the first
\* question and returns, and main() goes on to publisher.close() at once.
BpConnectResolve(ok) ==
  /\ bp_pc = "connecting"
  /\ IF ~ok
       THEN bp_pc' = "exited" /\ UNCHANGED <<bp_nc, bp_rl>>
       ELSE IF PublisherMode(bp_args) = "interactive"
         THEN bp_pc' = "closing" /\ bp_nc' = "closing" /\ bp_rl' = "asking"
         ELSE bp_pc' = "testing" /\ bp_nc' = "open" /\ UNCHANGED bp_rl
  /\ UNCHANGED <<bp_args, bp_ops, bp_lines>>
  /\ UNCHANGED <<pubVars, selVars, subVars, orchVars, tsVars>>

\* testBroadcastPatterns, test and demo mode: the next publish with its flush
\* and two second wait; after the last one main() calls publisher.close().
BpTestPublish ==
  /\ bp_pc = "testing"
  /\ bp_ops' = Append(bp_ops, BpPublish(builtinSubjects[Len(bp_ops) + 1]))
  /\ IF Len(bp_ops) + 1 = Len(builtinSubjects)
       THEN bp_pc' = "closing" /\ bp_nc' = "closing"
       ELSE UNCHANGED <<bp_pc, bp_nc>>
  /\ UNCHANGED <<bp_args, bp_rl, bp_lines>>
  /\ UNCHANGED <<pubVars, selVars, subVars, orchVars, tsVars>>

\* `await this.nc.close()` of close() resumes and main() returns; this.nc is
\* left as it is.
BpMainClose ==
  /\ bp_pc = "closing"
  /\ bp_pc' = "returned"
  /\ bp_nc' = "closed"
  /\ UNCHANGED <<bp_args, bp_rl, bp_ops, bp_lines>>
  /\ UNCHANGED <<pubVars, selVars, subVars, orchVars, tsVars>>

\* The publish attempts the callback of rl.question makes for one trimmed
\* line: test runs testBroadcastPatterns over its four subjects; a line with
\* a colon is split into command and message and calls publishMessage when
\* the message is not empty; status, an empty message and any other line
\* publish nothing.
LinePublishes(trimmed) ==
  IF trimmed = <<"t","e","s","t">>
    THEN [n \in DOMAIN builtinSubjects |-> BpPublish(builtinSubjects[n])]
  ELSE IF trimmed = <<"s","t","a","t","u","s">> THEN << >>
  ELSE IF includes(trimmed, <<":">>)
    THEN LET command == split(trimmed, ":", 2)[1]
             message == split(trimmed, ":", 2)[2] IN
           IF message # << >> THEN << BpPublish(CommandSubject(command)) >>
           ELSE << >>
  ELSE << >>

\* The callback of rl.question runs for one input line: exit and quit close
\* readline and return; every other line makes its publish attempts, on the
\* connection main() has already closed, and then asks the next question.
BpLine(input) ==
  /\ bp_rl = "asking"
  /\ bp_lines < MaxLines
  /\ bp_lines' = bp_lines + 1
  /\ IF trim(input) \in { <<"e","x","i","t">>, <<"q","u","i","t">> }
       THEN bp_rl' = "closed" /\ UNCHANGED bp_ops
       ELSE /\ bp_ops' = bp_ops \o LinePublishes(trim(input))
            /\ UNCHANGED bp_rl
  /\ UNCHANGED <<bp_args, bp_pc, bp_nc>>
  /\ UNCHANGED <<pubVars, selVars, subVars, orchVars, tsVars>>

\* The input (process.stdin) ends while a question is pending: readline
\* closes the interface, the callback of rl.question is not called and no
\* further question is asked.
BpInputEnd ==
  /\ bp_rl = "asking"
  /\ bp_rl' = "closed"
  /\ UNCHANGED <<bp_args, bp_pc, bp_nc, bp_ops, bp_lines>>
  /\ UNCHANGED <<pubVars, selVars, subVars, orchVars, tsVars>>

BroadcastPublisherNext ==
  \/ \E ok \in BOOLEAN : BpConnectResolve(ok)
  \/ BpTestPublish
  \/ BpMainClose
  \/ \E input \in InteractiveInputs : BpLine(input)
  \/ BpInputEnd

(***************************************************************************)
(* AllScenariosTestSuite (all-scenarios test): runAllScenarios checks the  *)
(* two clusters, then runs its three phases in order.  Every test case     *)
(* opens a connection of its own; the brokers and the subscriber children  *)
(* are the environment.                                                    *)
(***************************************************************************)
\* The calls of testTraditionalApproach, testLeafPubSub and
\* testLeafRequestReply, in program order.
suitePlan ==
  << [op |-> "startSubscriber", scenario |-> "traditional", user |-> "foo",
      cluster |-> "main", subject |-> "none"],
     [op |-> "testRequest", scenario |-> "Scenario 1", user |-> "bar",
      cluster |-> "main", subject |-> "rpc.hello.world"],
     [op |-> "testRequest", scenario |-> "Scenario 2", user |-> "foo",
      cluster |-> "main", subject |-> "rpc.hello.world"],
     [op |-> "stopSubscriber", scenario |-> "traditional", user |-> "foo",
      cluster |-> "main", subject |-> "none"],
     [op |-> "testConnection", scenario |-> "Scenario 3", user |-> "bar",
      cluster |-> "main", subject |-> "broad.rpc.>"],
     [op |-> "testConnection", scenario |-> "Scenario 3", user |-> "bar",
      cluster |-> "leaf", subject |-> ">"],
     [op |-> "startSubscriber", scenario |-> "requestreply", user |-> "foo",
      cluster |-> "main", subject |-> "none"],
     [op |-> "testRequest", scenario |-> "Scenario 4", user |-> "bar",
      cluster |-> "leaf", subject |-> "rpc.hello.world"],
     [op |-> "testRequest", scenario |-> "Scenario 4", user |-> "foo",
      cluster |-> "main", subject |-> "rpc.hello.world"],
     [op |-> "stopSubscriber", scenario |-> "requestreply", user |-> "foo",
      cluster |-> "main", subject |-> "none"] >>

\* The result testLeafPubSub pushes after its two testConnection calls.
Scenario3Result ==
  [step |-> 0, scenario |-> "Scenario 3", user |-> "bar", cluster |-> "leaf",
   subject |-> "broadcast.*", success |-> TRUE]

InitTestSuite ==
  /\ ts_pc = "new"
  /\ ts_i = 0
  /\ ts_sessions = <<>>
  /\ ts_results = <<>>
  /\ ts_ops = <<>>
  /\ ts_processes = <<>>
  /\ ts_children = <<>>
  /\ ts_exit = NoExit
  /\ ts_signal = [received |-> 0, pending |-> 0]

\* SIGINTs a run of the suite is sent at most.
MaxInterrupts == 2

\* this.results.push of testRequest for plan step i.
SuiteResult(i, success) ==
  [step |-> i, scenario |-> suitePlan[i].scenario, user |-> suitePlan[i].user,
   cluster |-> suitePlan[i].cluster, subject |-> suitePlan[i].subject,
   success |-> success]

\* What plan step i really did on the broker: the operation and how it ended.
SuiteOp(i, succeeded) ==
  [step |-> i, op |-> suitePlan[i].op, user |-> suitePlan[i].user,
   cluster |-> suitePlan[i].cluster, subject |-> suitePlan[i].subject,
   succeeded |-> succeeded]

\* Plan step ts_i returns to its caller with `results` as this.results; after
\* the last testConnection the caller pushes Scenario3Result.
SuiteReturn(results) ==
  /\ ts_results' =
       IF /\ suitePlan[ts_i].op = "testConnection"
          /\ \A m \in DOMAIN suitePlan : suitePlan[m].op = "testConnection" => m <= ts_i
         THEN Append(results, Scenario3Result)
         ELSE results
  /\ ts_i' = ts_i + 1
  /\ ts_pc' = "idle"

\* runAllScenarios up to the first await of checkPrerequisites.
SuiteStart ==
  /\ ts_pc = "new"
  /\ ts_pc' = "prerequisites"
  /\ UNCHANGED <<ts_i, ts_sessions, ts_results, ts_ops, ts_processes, ts_children, ts_exit, ts_signal>>
  /\ UNCHANGED <<pubVars, selVars, subVars, orchVars, bpVars>>

\* checkPrerequisites returns: both clusters answered, or process.exit(1).
SuitePrerequisites(ok) ==
  /\ ts_pc = "prerequisites"
  /\ IF ok THEN ts_pc' = "idle" /\ ts_i' = 1 /\ UNCHANGED ts_exit
           ELSE ts_pc' = "exited" /\ ts_exit' = 1 /\ UNCHANGED ts_i
  /\ UNCHANGED <<ts_sessions, ts_results, ts_ops, ts_processes, ts_children, ts_signal>>
  /\ UNCHANGED <<pubVars, selVars, subVars, orchVars, bpVars>>

\* startSubscriber: spawn the child and push it on this.processes; the phase
\* then awaits its two second sleep.
SuiteStartSubscriber ==
  /\ ts_pc = "idle" /\ ts_i \in DOMAIN suitePlan
  /\ suitePlan[ts_i].op = "startSubscriber"
  /\ ts_children' = Append(ts_children, [signals |-> 0, killed |-> FALSE])
  /\ ts_processes' = Append(ts_processes, Len(ts_children) + 1)
  /\ ts_pc' = "waiting"
  /\ UNCHANGED <<ts_i, ts_sessions, ts_results, ts_ops, ts_exit, ts_signal>>
  /\ UNCHANGED <<pubVars, selVars, subVars, orchVars, bpVars>>

\* stopSubscriber: pop the most recent child, send it SIGTERM whatever its
\* `killed` flag says, and await the one second sleep.  With this.processes
\* empty it returns at once.
SuiteStopSubscriber ==
  /\ ts_pc = "idle" /\ ts_i \in DOMAIN suitePlan
  /\ suitePlan[ts_i].op = "stopSubscriber"
  /\ IF Len(ts_processes) > 0
       THEN /\ ts_processes' = SubSeq(ts_processes, 1, Len(ts_processes) - 1)
            /\ ts_children' = [ts_children EXCEPT
                 ![ts_processes[Len(ts_processes)]] =
                    [signals |-> @.signals + 1, killed |-> TRUE]]
            /\ ts_pc' = "waiting"
            /\ UNCHANGED <<ts_i, ts_results>>
       ELSE /\ UNCHANGED <<ts_processes, ts_children>>
            /\ SuiteReturn(ts_results)
  /\ UNCHANGED <<ts_sessions, ts_ops, ts_exit, ts_signal>>
  /\ UNCHANGED <<pubVars, selVars, subVars, orchVars, bpVars>>

\* `await this.sleep(...)` after a spawn or a SIGTERM resumes and the plan
\* step is over.
SuiteSleepResume ==
  /\ ts_pc = "waiting"
  /\ SuiteReturn(ts_results)
  /\ UNCHANGED <<ts_sessions, ts_ops, ts_processes, ts_children, ts_exit, ts_signal>>
  /\ UNCHANGED <<pubVars, selVars, subVars, orchVars, bpVars>>

\* testRequest / testConnection up to `await connect(...)`.
SuiteTestBegin ==
  /\ ts_pc = "idle" /\ ts_i \in DOMAIN suitePlan
  /\ suitePlan[ts_i].op \in {"testRequest", "testConnection"}
  /\ ts_pc' = "connecting"
  /\ UNCHANGED <<ts_i, ts_sessions, ts_results, ts_ops, ts_processes, ts_children, ts_exit, ts_signal>>
  /\ UNCHANGED <<pubVars, selVars, subVars, orchVars, bpVars>>

\* `await connect(...)` of the test case resumes.  Rejected: the catch block
\* (testRequest pushes a failure, testConnection only logs) and return.
\* Resolved: testRequest sends its request; testConnection calls nc.subscribe,
\* which returns (subscribeOk) and the sleep is awaited, or throws into the
\* catch block.
SuiteConnectResolve(ok, subscribeOk) ==
  /\ ts_pc = "connecting"
  /\ ts_sessions' = IF ok THEN Append(ts_sessions, [step |-> ts_i, state |-> "open"])
                    ELSE ts_sessions
  /\ IF suitePlan[ts_i].op = "testRequest"
       THEN /\ subscribeOk
            /\ IF ok THEN ts_pc' = "requesting" /\ UNCHANGED <<ts_i, ts_results>>
                     ELSE SuiteReturn(Append(ts_results, SuiteResult(ts_i, FALSE)))
            /\ UNCHANGED ts_ops
       ELSE IF ok /\ subscribeOk
              THEN ts_pc' = "sleeping" /\ UNCHANGED <<ts_i, ts_results, ts_ops>>
              ELSE /\ ok \/ subscribeOk
                   /\ ts_ops' = Append(ts_ops, SuiteOp(ts_i, FALSE))
                   /\ SuiteReturn(ts_results)
  /\ UNCHANGED <<ts_processes, ts_children, ts_exit, ts_signal>>
  /\ UNCHANGED <<pubVars, selVars, subVars, orchVars, bpVars>>

\* `await nc.request(...)` of testRequest resumes.  A reply whose text parses
\* is pushed as a success and nc.close() is awaited; a rejection (replied =
\* FALSE) or a reply JSON.parse throws on goes to the catch block, which
\* pushes a failure and returns.
SuiteRequestResolve(replied, parses) ==
  /\ ts_pc = "requesting"
  /\ replied \/ parses
  /\ ts_ops' = Append(ts_ops, SuiteOp(ts_i, replied))
  /\ IF replied /\ parses
       THEN /\ ts_results' = Append(ts_results, SuiteResult(ts_i, TRUE))
            /\ ts_pc' = "closing"
            /\ UNCHANGED ts_i
       ELSE SuiteReturn(Append(ts_results, SuiteResult(ts_i, FALSE)))
  /\ UNCHANGED <<ts_sessions, ts_processes, ts_children, ts_exit, ts_signal>>
  /\ UNCHANGED <<pubVars, selVars, subVars, orchVars, bpVars>>

\* testConnection after its sleep: sub.unsubscribe() returns and nc.close()
\* is awaited, or throws into the catch block, which logs and returns.
SuiteUnsubscribe(ok) ==
  /\ ts_pc = "sleeping"
  /\ ts_ops' = Append(ts_ops, SuiteOp(ts_i, ok))
  /\ IF ok THEN ts_pc' = "closing" /\ UNCHANGED <<ts_i, ts_results>>
           ELSE SuiteReturn(ts_results)
  /\ UNCHANGED <<ts_sessions, ts_processes, ts_children, ts_exit, ts_signal>>
  /\ UNCHANGED <<pubVars, selVars, subVars, orchVars, bpVars>>

\* `await nc.close()` resumes and the test case returns.
SuiteCloseResolve ==
  /\ ts_pc = "closing"
  /\ ts_sessions' = [ts_sessions EXCEPT ![Len(ts_sessions)].state = "closed"]
  /\ SuiteReturn(ts_results)
  /\ UNCHANGED <<ts_ops, ts_processes, ts_children, ts_exit, ts_signal>>
  /\ UNCHANGED <<pubVars, selVars, subVars, orchVars, bpVars>>

\* cleanup(): SIGTERM to every child of this.processes not killed yet.
SuiteKill(children, processes) ==
  [c \in DOMAIN children |->
     IF (\E n \in DOMAIN processes : processes[n] = c) /\ ~children[c].killed
       THEN [signals |-> children[c].signals + 1, killed |-> TRUE]
       ELSE children[c]]

\* The three phases are over: displayCompleteAnalysis and cleanup() up to its
\* one second sleep.
SuiteCleanup ==
  /\ ts_pc = "idle" /\ ts_i = Len(suitePlan) + 1
  /\ ts_children' = SuiteKill(ts_children, ts_processes)
  /\ ts_pc' = "cleanup"
  /\ UNCHANGED <<ts_i, ts_sessions, ts_results, ts_ops, ts_processes, ts_exit, ts_signal>>
  /\ UNCHANGED <<pubVars, selVars, subVars, orchVars, bpVars>>

\* The sleep of cleanup() resumes; runAllScenarios and main() return.
SuiteCleanupDone ==
  /\ ts_pc = "cleanup"
  /\ ts_pc' = "done"
  /\ UNCHANGED <<ts_i, ts_sessions, ts_results, ts_ops, ts_processes, ts_children,
                 ts_exit, ts_signal>>
  /\ UNCHANGED <<pubVars, selVars, subVars, orchVars, bpVars>>

\* SIGINT is handled while the main flow is at an await or has returned from
\* main() (between two plan steps the code runs on without yielding): the
\* handler main() installed calls cleanup(), which signals the children of
\* this.processes not killed yet and awaits its sleep.  The main flow goes on
\* meanwhile.
SuiteInterrupt ==
  /\ ts_pc \notin {"new", "idle", "exited"}
  /\ ts_signal.received < MaxInterrupts
  /\ ts_children' = SuiteKill(ts_children, ts_processes)
  /\ ts_signal' = [received |-> ts_signal.received + 1,
                   pending |-> ts_signal.pending + 1]
  /\ UNCHANGED <<ts_pc, ts_i, ts_sessions, ts_results, ts_ops, ts_processes, ts_exit>>
  /\ UNCHANGED <<pubVars, selVars, subVars, orchVars, bpVars>>

\* The sleep of a handler's cleanup() resumes: process.exit(0), whichever
\* await the main flow is at.
SuiteInterruptExit ==
  /\ ts_pc \notin {"idle", "exited"}
  /\ ts_signal.pending > 0
  /\ ts_pc' = "exited"
  /\ ts_exit' = 0
  /\ UNCHANGED <<ts_i, ts_sessions, ts_results, ts_ops, ts_processes, ts_children,
                 ts_signal>>
  /\ UNCHANGED <<pubVars, selVars, subVars, orchVars, bpVars>>

TestSuiteNext ==
  \/ SuiteStart
  \/ \E ok \in BOOLEAN : SuitePrerequisites(ok)
  \/ SuiteStartSubscriber
  \/ SuiteStopSubscriber
  \/ SuiteTestBegin
  \/ \E ok \in BOOLEAN, subscribeOk \in BOOLEAN : SuiteConnectResolve(ok, subscribeOk)
  \/ \E replied \in BOOLEAN, parses \in BOOLEAN : SuiteRequestResolve(replied, parses)
  \/ \E ok \in BOOLEAN : SuiteUnsubscribe(ok)
  \/ SuiteCloseResolve
  \/ SuiteSleepResume
  \/ SuiteCleanup
  \/ SuiteCleanupDone
  \/ SuiteInterrupt
  \/ SuiteInterruptExit

(***************************************************************************)
(* Specifications: one per role.  The roles that take no part stay in      *)
(* their initial state.                                                    *)
(***************************************************************************)
IdlePublisher ==
  /\ pub_config = "scenario1" /\ pub_nc = FALSE /\ pub_pc = "new"
  /\ pub_message = NULL /\ pub_requests = <<>> /\ pub_log = <<>>
  /\ pub_thrown = NoError /\ pub_calls = 0 /\ pub_exit = PubNoExit
  /\ pub_oneway = <<>> /\ pub_main = InitMain(FALSE)

IdleSelector ==
  /\ sel_class = [r \in Runs |-> "BroadcastSubscriber"]
  /\ sel_user = [r \in Runs |-> Str_Foo]
  /\ sel_nc = [r \in Runs |-> NULL]
  /\ sel_connectedCluster = [r \in Runs |-> NULL]
  /\ sel_open = [r \in Runs |-> {}]
  /\ sel_i = [r \in Runs |-> 1]
  /\ sel_pc = [r \in Runs |-> "new"]
  /\ sel_ret = [r \in Runs |-> "pending"]
  /\ sel_attempts = [r \in Runs |-> <<>>]

IdleSubscriber ==
  /\ sub_class = "NATSSubscriber" /\ sub_pc = "new" /\ sub_nc = "null"
  /\ sub_subscriptions = <<>> /\ sub_failed = <<>> /\ sub_inbox = <<>>
  /\ sub_messageCount = 0 /\ sub_handled = <<>> /\ sub_replies = <<>>
  /\ sub_published = 0 /\ sub_sd = NoShutdown /\ sub_exit = NoExit
  /\ sub_signal = NoSignal /\ sub_reported = NoReport
  /\ sub_again = NoShutdown

IdleBroadcastPublisher ==
  /\ bp_args = <<"foo", "main">> /\ bp_pc = "connecting" /\ bp_nc = "null"
  /\ bp_rl = "none" /\ bp_ops = <<>> /\ bp_lines = 0

\* NATSPublisher in subject-fallback mode.
InitPublisherRole ==
  InitPublisher /\ ~pub_main.interactive /\ IdleSelector /\ IdleSubscriber /\ InitOrchestrator /\ IdleBroadcastPublisher /\ InitTestSuite
SpecPublisher == InitPublisherRole /\ [][PublisherNext]_vars

\* The publisher process in interactive mode.
InitPublisherInteractive ==
  InitPublisher /\ pub_main.interactive /\ IdleSelector /\ IdleSubscriber /\ InitOrchestrator /\ IdleBroadcastPublisher /\ InitTestSuite
SpecPublisherInteractive == InitPublisherInteractive /\ [][PublisherInteractiveNext]_vars

\* Two role instances running connectWithFallback.
InitSelectorRuns ==
  IdlePublisher /\ InitSelector /\ IdleSubscriber /\ InitOrchestrator /\ IdleBroadcastPublisher /\ InitTestSuite
SpecSelector == InitSelectorRuns /\ [][SelectorNext]_vars

\* One subscriber process of either class.
InitSubscriberProcess ==
  /\ IdlePublisher
  /\ InitOrchestrator
  /\ IdleBroadcastPublisher /\ InitTestSuite
  /\ InitSubscriber
  /\ sel_class = [r \in Runs |-> "BroadcastSubscriber"]
  /\ sel_user \in {[r \in Runs |-> u] : u \in
                    IF sub_class = "NATSSubscriber" THEN {Str_Foo} ELSE Users}
  /\ sel_nc = [r \in Runs |-> NULL]
  /\ sel_connectedCluster = [r \in Runs |-> NULL]
  /\ sel_open = [r \in Runs |-> {}]
  /\ sel_i = [r \in Runs |-> 1]
  /\ sel_pc = [r \in Runs |-> "new"]
  /\ sel_ret = [r \in Runs |-> "pending"]
  /\ sel_attempts = [r \in Runs |-> <<>>]

\* SpecPublisher with every nc.request resolving: the client rejects a request
\* that got no reply when its timeout (config.timeout) expires.
SpecPublisherLive ==
  /\ SpecPublisher
  /\ WF_vars(\E o \in RequestOutcomes : PrimaryResolve(o))
  /\ WF_vars(\E o \in RequestOutcomes : FallbackResolve(o))

SpecSubscriber == InitSubscriberProcess /\ [][SubscriberNext]_vars

\* The same process with a repeated SIGINT / SIGTERM; the broadcast subscriber
\* is run as Bar, who ends on the leaf cluster with its one pattern.
InitSubscriberSignals ==
  /\ InitSubscriberProcess
  /\ sub_class = "BroadcastSubscriber" => sel_user[Self] = Str_Bar
SpecSubscriberSignals == InitSubscriberSignals /\ [][SubscriberSignalsNext]_vars

\* The Scenario 3 orchestrator with its children.
InitOrchestratorRun ==
  IdlePublisher /\ IdleSelector /\ IdleSubscriber /\ InitOrchestrator /\ IdleBroadcastPublisher /\ InitTestSuite
SpecOrchestrator == InitOrchestratorRun /\ [][OrchestratorNext]_vars

\* The same orchestrator with SIGINT / SIGTERM delivered to it.
SpecOrchestratorSignals == InitOrchestratorRun /\ [][OrchestratorSignalNext]_vars

\* One run of the all-scenarios test suite.
InitTestSuiteRun ==
  /\ IdlePublisher /\ IdleSelector /\ IdleSubscriber /\ InitOrchestrator
  /\ IdleBroadcastPublisher
  /\ InitTestSuite
SpecTestSuite == InitTestSuiteRun /\ [][TestSuiteNext]_vars

\* One broadcast-publisher process.
InitBroadcastPublisherRun ==
  IdlePublisher /\ IdleSelector /\ IdleSubscriber /\ InitOrchestrator /\ InitBroadcastPublisher /\ InitTestSuite
SpecBroadcastPublisher == InitBroadcastPublisherRun /\ [][BroadcastPublisherNext]_vars

(***************************************************************************)
(* Properties of NATSPublisher.publishWithFallback (SpecPublisher).        *)
(***************************************************************************)
SubjectsOf(requests) == [n \in DOMAIN requests |-> requests[n].subject]

PrimaryFailed ==
  Len(pub_log) >= 1 /\ pub_log[1].attempt = 1 /\ pub_log[1].result = "failed"

PrimaryReplied ==
  Len(pub_log) >= 1 /\ pub_log[1].attempt = 1 /\ pub_log[1].result = "success"

FallbackReplied ==
  Len(pub_log) = 2 /\ pub_log[2].attempt = 2 /\ pub_log[2].result = "success"

\* C1: within one call, a request on fallbackSubject is only ever issued after
\* the request on primarySubject was issued first and failed; and once the
\* primary request got a reply the call has returned without an error and
\* without any request on fallbackSubject.
C1_FallbackOnlyAfterPrimaryFailed ==
  /\ \A n \in DOMAIN pub_requests :
       pub_requests[n].subject = PubConfig.fallbackSubject =>
         /\ n = 2
         /\ pub_requests[1].subject = PubConfig.primarySubject
         /\ PrimaryFailed
  /\ PrimaryReplied =>
       /\ pub_pc = "returned"
       /\ pub_thrown = NoError
       /\ SubjectsOf(pub_requests) = <<PubConfig.primarySubject>>

\* C1 witness: the fallback request is in flight after a failed primary attempt.
C1_Witness ==
  /\ pub_pc = "awaitFallback"
  /\ PrimaryFailed
  /\ SubjectsOf(pub_requests) = <<PubConfig.primarySubject, PubConfig.fallbackSubject>>

\* The error text signals no responder, or a denied publish.
NoResponderOrDenied(errorMsg) ==
  \/ includes(errorMsg, Str_no_responders)
  \/ includes(errorMsg, Str_503)
  \/ includes(errorMsg, Str_Permissions_Violation)

\* C2: when the primary attempt failed with a no-responder or denial signal and
\* the fallback attempt got a reply, the call has returned without throwing,
\* the successful attempt is the one on fallbackSubject, and the call issued
\* exactly two requests: first on primarySubject, then on fallbackSubject.
C2_FallbackSucceedsAfterNoResponder ==
  (PrimaryFailed /\ NoResponderOrDenied(pub_log[1].errorMsg) /\ FallbackReplied) =>
    /\ pub_pc = "returned"
    /\ pub_thrown = NoError
    /\ pub_log[1].subject = PubConfig.primarySubject
    /\ pub_log[2].subject = PubConfig.fallbackSubject
    /\ SubjectsOf(pub_requests) = <<PubConfig.primarySubject, PubConfig.fallbackSubject>>

\* C2 witness: Bar's call returned through the fallback after a 503 on the primary.
C2_Witness ==
  /\ PubConfig.user = "Bar"
  /\ PrimaryFailed /\ pub_log[1].errorMsg = Str_503
  /\ FallbackReplied
  /\ pub_pc = "returned"

\* C3 (as claimed): when both attempts failed, the Error thrown names both
\* subjects and carries the failure reason of the primary attempt as well as
\* the one of the fallback attempt.
C3_CompositeErrorCarriesBothReasons ==
  (pub_pc = "threw" /\ Len(pub_log) = 2) =>
    /\ pub_thrown.kind = "BothFailed"
    /\ pub_thrown.primary = PubConfig.primarySubject
    /\ pub_thrown.fallback = PubConfig.fallbackSubject
    /\ includes(pub_thrown.errorMsg, pub_log[2].errorMsg)
    /\ includes(pub_thrown.errorMsg, pub_log[1].errorMsg)

(***************************************************************************)
(* Properties of connectWithFallback (SpecSelector).                       *)
(***************************************************************************)
Selected(r) == sel_pc[r] = "done" /\ sel_ret[r] = "true"
Exhausted(r) == sel_pc[r] = "done" /\ sel_ret[r] = "false"
Accepted(a) == a.connected /\ a.validated

\* C4: the k-th attempt of a run is on the k-th configured cluster ([main,
\* leaf]); a run that returned true holds the connection to the cluster of its
\* last attempt, that attempt connected and passed the capability check, and
\* every attempt before it failed to connect or failed the check.
C4_FirstAcceptedInConfiguredOrder ==
  \A r \in Runs :
    /\ Len(sel_attempts[r]) <= Len(clusters)
    /\ \A k \in DOMAIN sel_attempts[r] : sel_attempts[r][k].cluster = clusters[k]
    /\ Selected(r) =>
         LET n == Len(sel_attempts[r]) IN
           /\ n >= 1
           /\ Accepted(sel_attempts[r][n])
           /\ sel_nc[r] = clusters[n]
           /\ sel_connectedCluster[r] = clusters[n]
           /\ \A k \in 1..(n - 1) : ~Accepted(sel_attempts[r][k])

\* C4 witness: a run selected leaf after main was attempted and not accepted.
C4_Witness ==
  \E r \in Runs :
    /\ Selected(r) /\ sel_nc[r] = "leaf"
    /\ Len(sel_attempts[r]) = 2
    /\ sel_attempts[r][1].cluster = "main" /\ ~Accepted(sel_attempts[r][1])

TrialTimedOut(a) ==
  a.trial.kind = "error" /\ includes(toLowerCase(a.trial.error.message), Str_timeout)
TrialNoResponders(a) ==
  /\ a.trial.kind = "error"
  /\ includes(a.trial.error.message, Str_no_responders)
       \/ includes(a.trial.error.message, Str_503)

\* C7 (as claimed): the publisher's probe makes its trial request exactly for
\* Bar on main; there it accepts the cluster when the trial request was
\* answered or timed out, and rejects it when the trial request failed with
\* no responders / 503.
C7_ProbeVerdictForBarOnMain ==
  \A r \in Runs : \A k \in DOMAIN sel_attempts[r] :
    LET a == sel_attempts[r][k] IN
      /\ a.trial.kind # "none" <=>
           ( /\ sel_class[r] = "RequestReplyLeafPublisher" /\ sel_user[r] = Str_Bar
             /\ a.cluster = "main" /\ a.connected )
      /\ (a.trial.kind = "reply" \/ TrialTimedOut(a)) => a.validated
      /\ TrialNoResponders(a) => ~a.validated

\* C8 (as claimed): a trial request that fails with an error that is neither
\* a timeout nor a no-responder signal ends the selection as a failure: no
\* further cluster is attempted after it and the run does not return true.
C8_IndeterminateIsHardFailure ==
  \A r \in Runs : \A k \in DOMAIN sel_attempts[r] :
    sel_attempts[r][k].line = "errorTesting" =>
      /\ k = Len(sel_attempts[r])
      /\ sel_ret[r] # "true"

\* What a run observed, attempt by attempt: connect result and probe verdict.
Observed(r) ==
  [k \in DOMAIN sel_attempts[r] |->
     [connected |-> sel_attempts[r][k].connected,
      validated |-> sel_attempts[r][k].validated]]

ConfiguredPatterns ==
  IF sub_class = "NATSSubscriber" THEN subjects
  ELSE getSubscriptionPatterns(sel_user[Self], sel_connectedCluster[Self])

\* C10 (as claimed): when the registration of a pattern was reported as failed,
\* every other configured pattern has been registered, and as long as no
\* shutdown was asked for the process keeps listening with every registered
\* subscription active at the broker.
C10_PartialSubscribeFailureIsolated ==
  sub_failed # <<>> =>
    /\ \A n \in DOMAIN ConfiguredPatterns :
         \/ \E m \in DOMAIN sub_failed : sub_failed[m] = ConfiguredPatterns[n]
         \/ \E k \in DOMAIN sub_subscriptions :
              sub_subscriptions[k].pattern = ConfiguredPatterns[n]
    /\ sub_pc # "failed"
    /\ sub_sd = NoShutdown =>
         \A k \in DOMAIN sub_subscriptions : sub_subscriptions[k].state = "active"

(***************************************************************************)
(* Acknowledgements of the subscriber's message loop.                      *)
(***************************************************************************)
\* The requests subscription k has handled, in handling order.
RequestsHandledOn(k) ==
  SelectSeq(sub_handled, LAMBDA h : h.sub = k /\ h.reply # NoReply)

\* Those of them whose nc.publish of the acknowledgement did not throw.
RequestsAnsweredOn(k) ==
  SelectSeq(sub_handled, LAMBDA h : h.sub = k /\ h.reply # NoReply /\ ~h.replyThrew)

\* The acknowledgements published by the loop of subscription k, in order.
AcksOn(k) == SelectSeq(sub_replies, LAMBDA r : r.sub = k)

\* C11 as stated: a subscription that has handled N requests has published
\* exactly N acknowledgements.
C11_OneAckPerRequest ==
  \A k \in DOMAIN sub_subscriptions : Len(AcksOn(k)) = Len(RequestsHandledOn(k))

\* C11 (amended): on every subscription the acknowledgements are, in order,
\* those of the requests whose acknowledgement publish did not throw: the
\* i-th one answers the i-th such request, is addressed to that request's
\* reply address, and was published while that request was the last message
\* handled (before any later message of the process is counted); a request
\* whose publish threw has no acknowledgement.
C11_AcksInRequestOrder ==
  \A k \in DOMAIN sub_subscriptions :
    /\ Len(AcksOn(k)) = Len(RequestsAnsweredOn(k))
    /\ \A i \in 1..Len(AcksOn(k)) :
         /\ AcksOn(k)[i].request = RequestsAnsweredOn(k)[i].id
         /\ AcksOn(k)[i].to = RequestsAnsweredOn(k)[i].reply
         /\ AcksOn(k)[i].number = RequestsAnsweredOn(k)[i].number
    /\ \A n \in 1..Len(sub_handled) :
         (sub_handled[n].sub = k /\ sub_handled[n].replyThrew)
           => \A i \in 1..Len(AcksOn(k)) : AcksOn(k)[i].number # sub_handled[n].number

\* Two requests handled in sequence on one subscription, both acknowledged.
C11_Witness ==
  \E k \in DOMAIN sub_subscriptions :
    /\ Len(RequestsAnsweredOn(k)) = 2
    /\ Len(AcksOn(k)) = 2
    /\ AcksOn(k)[1].to # AcksOn(k)[2].to

(***************************************************************************)
(* Shutdown of the subscriber processes.                                   *)
(***************************************************************************)
\* C12: once a shutdown signal has been delivered no message handler starts:
\* every handled message had its handler started before the signal, and none
\* of them arrived after it.
C12_NoHandlerAfterSignal ==
  \A n \in 1..Len(sub_handled) :
    ~sub_handled[n].startedAfterSignal /\ ~sub_handled[n].arrivedAfterSignal

\* C13: a subscriber process that was sent SIGINT or SIGTERM has, by the time
\* it has exited, run its shutdown to the end and printed its final
\* statistics.
C13_SignalsRunGracefulDrain ==
  (sub_exit # NoExit /\ sub_signal # NoSignal)
    => (sub_sd.pc = "finished" /\ sub_reported # NoReport)

\* C14: the message count a subscriber has reported when its shutdown has
\* ended the process is the number of messages whose handler ran, those
\* handled during the shutdown included.
C14_FinalCountIsHandledCount ==
  sub_exit = 0 => (sub_reported # NoReport /\ sub_reported = Len(sub_handled))

\* C16: a subscriber process whose connect or subscribe failed exits with a
\* non-zero code, and exit code 0 comes only from a shutdown that a signal
\* started.
C16_ConnectFailureExitsNonZero ==
  /\ (sub_exit # NoExit /\ sub_sd.cause = "catch") => sub_exit # 0
  /\ sub_exit = 0 => sub_sd.cause \in Signals

(***************************************************************************)
(* Exit code of the publisher process.                                     *)
(***************************************************************************)
\* C15: a publisher process that has ended after a failed connect or after
\* both subjects failed has a non-zero exit code; its exit code is 0 only
\* when the publish returned normally.
C15_PublisherFailureExitsNonZero ==
  pub_exit.ended =>
    /\ pub_pc \in {"connectFailed", "threw"} => pub_exit.code # 0
    /\ pub_exit.code = 0 => pub_pc = "returned"

(***************************************************************************)
(* Cluster selection of the broadcast subscriber process.                  *)
(***************************************************************************)
\* C17: in a broadcast subscriber process, connectWithFallback returns true
\* for Bar only with the leaf connection, and for Foo and MMM with the main
\* connection whenever main could be connected to; Bar is never accepted on
\* main, a Bar whose leaf connect failed gets false, and every subscription
\* Bar registers is registered on leaf with leaf's pattern list.
C17_BarSubscribesOnLeafOnly ==
  sub_class = "BroadcastSubscriber" =>
    LET user == sel_user[Self]
        attempts == sel_attempts[Self] IN
      /\ (Selected(Self) /\ user = Str_Bar)
           => sel_nc[Self] = "leaf" /\ sel_connectedCluster[Self] = "leaf"
      /\ (Selected(Self) /\ user \in {Str_Foo, Str_MMM} /\ attempts[1].connected)
           => /\ sel_nc[Self] = "main" /\ sel_connectedCluster[Self] = "main"
              /\ Len(attempts) = 1
      /\ user = Str_Bar =>
           /\ \A k \in DOMAIN attempts : attempts[k].cluster = "main" => ~attempts[k].validated
           /\ (sel_pc[Self] = "done" /\ ~attempts[Len(attempts)].connected)
                => sel_ret[Self] = "false"
           /\ sub_subscriptions # <<>> =>
                /\ sel_connectedCluster[Self] = "leaf"
                /\ \A k \in DOMAIN sub_subscriptions :
                     sub_subscriptions[k].pattern = <<">">>

\* C17 witness: Bar connected to main, was turned away there, connected to
\* leaf and registered its subscription on leaf.
C17_Witness ==
  /\ sub_class = "BroadcastSubscriber" /\ sel_user[Self] = Str_Bar
  /\ Len(sel_attempts[Self]) = 2
  /\ sel_attempts[Self][1].cluster = "main" /\ sel_attempts[Self][1].connected
  /\ sel_nc[Self] = "leaf"
  /\ Len(sub_subscriptions) = 1 /\ sub_subscriptions[1].state = "active"

(***************************************************************************)
(* The broadcast test cases of Scenario3TestOrchestrator.                  *)
(***************************************************************************)
\* C18: the publisher children run strictly one after the other: at any time
\* at most one of them has not ended yet.
C18_OnePublisherAtATime ==
  Cardinality({ p \in DOMAIN orch_publishers : orch_publishers[p].state # "closed" }) <= 1

\* C19: every test case whose wait has ended has contributed exactly one
\* result entry, in execution order, and a test case whose publisher child
\* failed is not reported as published.
C19_EachTestCaseRecordsOneResult ==
  LET tests == SelectSeq(orch_testResults, LAMBDA r : r.type = "test") IN
    /\ Len(tests) = Len(orch_log)
    /\ \A n \in DOMAIN tests : tests[n].test = n
    /\ \A n \in DOMAIN orch_log :
         orch_publishers[orch_log[n].test].exitCode = 1
           => orch_log[n].line # "Test message published"

\* C20: every test case the orchestrator has finished with has a result entry
\* that says passed exactly when the subscribers that received its test
\* message are the expected receivers.
C20_PassedIffReceiversMatch ==
  \A i \in DOMAIN orch_publishers :
    (orch_i > i \/ orch_pc \in {"summary", "cleanup", "done"})
      => \E n \in DOMAIN orch_testResults :
           /\ orch_testResults[n].type = "test"
           /\ orch_testResults[n].test = i
           /\ orch_testResults[n].passed
                = (orch_publishers[i].received = testCases[i].expectedReceivers)

(***************************************************************************)
(* One-way publish (NATSPublisher.publishSimple).                          *)
(***************************************************************************)
\* C21: what a one-way publish reports does not depend on the broker's
\* decision: two publishes of the same subject and message whose client-side
\* send went the same way report the same outcome, and a publish whose send
\* completed reports success with no error, delivered or dropped.
C21_PublishOutcomeIgnoresAuthorization ==
  /\ \A i, j \in DOMAIN pub_oneway :
       ( /\ pub_oneway[i].subject = pub_oneway[j].subject
         /\ pub_oneway[i].message = pub_oneway[j].message
         /\ pub_oneway[i].sendThrew = pub_oneway[j].sendThrew )
       => pub_oneway[i].outcome = pub_oneway[j].outcome
  /\ \A i \in DOMAIN pub_oneway :
       ~pub_oneway[i].sendThrew => pub_oneway[i].outcome = "published"

\* C21 witness: the same subject and message were published twice with the
\* send completing; the broker delivered one and dropped the other.
C21_Witness ==
  \E i, j \in DOMAIN pub_oneway :
    /\ pub_oneway[i].subject = pub_oneway[j].subject
    /\ pub_oneway[i].message = pub_oneway[j].message
    /\ ~pub_oneway[i].sendThrew /\ ~pub_oneway[j].sendThrew
    /\ pub_oneway[i].delivered /\ ~pub_oneway[j].authorized /\ ~pub_oneway[j].delivered
    /\ pub_oneway[i].outcome = "published" /\ pub_oneway[j].outcome = "published"

(***************************************************************************)
(* Termination of publishWithFallback (SpecPublisherLive).                 *)
(***************************************************************************)
\* C22: a call of publishWithFallback issues at most two requests, the first
\* on primarySubject and the second, if any, on fallbackSubject, and a call
\* that is waiting for a request always comes to return or throw.
C22_CallEndsWithinTwoRequests ==
  /\ [](SubjectsOf(pub_requests) \in
          { <<>>, <<PubConfig.primarySubject>>,
            <<PubConfig.primarySubject, PubConfig.fallbackSubject>> })
  /\ (pub_pc \in {"awaitPrimary", "awaitFallback"}) ~> (pub_pc \in {"returned", "threw"})

\* C22 witness: a call has thrown the composite failure after one request on
\* each subject.
C22_Witness ==
  /\ pub_pc = "threw" /\ pub_thrown.kind = "BothFailed"
  /\ SubjectsOf(pub_requests) = <<PubConfig.primarySubject, PubConfig.fallbackSubject>>

(***************************************************************************)
(* Sessions held during endpoint selection (SpecSelector).                 *)
(***************************************************************************)
\* C23 (as claimed): an instance never has more than one connection open; whenever the
\* loop of connectWithFallback is about to connect, the instance has no open
\* connection and both this.nc and this.connectedCluster are null; and the
\* connection of every attempt the capability test rejected is closed once
\* its close has been awaited.
C23_RejectedSessionClosedBeforeNext ==
  \A r \in Runs :
    /\ Cardinality(sel_open[r]) <= 1
    /\ sel_pc[r] = "connecting"
         => (sel_open[r] = {} /\ sel_nc[r] = NULL /\ sel_connectedCluster[r] = NULL)
    /\ \A k \in DOMAIN sel_attempts[r] :
         ( /\ sel_attempts[r][k].connected /\ ~sel_attempts[r][k].validated
           /\ (k < Len(sel_attempts[r]) \/ sel_pc[r] # "closing") )
         => sel_attempts[r][k].cluster \notin sel_open[r]

\* C24: whatever subject the request-reply leaf publisher is started with,
\* every trial request that decided about an endpoint was made on that
\* subject.
C24_ProbeOnRequestedSubject ==
  \A r \in Runs : \A s \in RequestSubjects : \A k \in DOMAIN sel_attempts[r] :
    ( /\ sel_class[r] = "RequestReplyLeafPublisher"
      /\ sel_attempts[r][k].trial.kind # "none" )
    => TrialSubject = s

\* C25: the shutdown of subscriber.ts (Draining, then Closed) is entered only
\* from Listening: a process whose shutdown has begun had completed its
\* connect and its subscriptions and was listening.
C25_DrainingOnlyFromListening ==
  (sub_class = "NATSSubscriber" /\ sub_sd.pc # "idle" /\ sub_exit = NoExit)
    => sub_pc = "listening"

(***************************************************************************)
(* Publishes of the broadcast publisher process (SpecBroadcastPublisher).  *)
(***************************************************************************)
\* C26: every publish the broadcast publisher issues is issued while its
\* connection is open: none after close() has been called on it, and in the
\* interactive mode the connection is open for every message command entered
\* before exit.
C26_PublishOnlyOnOpenSession ==
  \A n \in DOMAIN bp_ops : bp_ops[n].nc = "open" /\ bp_ops[n].result = "published"

\* C27: when gracefulShutdown() of the subscriber has printed its final count,
\* it has before that attempted the unsubscribe of every subscription in
\* order, failed ones included, then attempted the drain of the connection
\* when there is one, whether or not the drain failed; the report is its last
\* step.
C27_UnsubscribeAllThenDrainThenReport ==
  (sub_class = "NATSSubscriber" /\ sub_reported # NoReport) =>
    LET log == sub_sd.log
        n   == Len(sub_subscriptions) IN
      /\ Len(log) = n + (IF sub_nc = "null" THEN 0 ELSE 1) + 1
      /\ \A j \in 1..n : log[j].op = "unsubscribe" /\ log[j].k = j
      /\ sub_nc # "null" => log[n + 1].op = "drain"
      /\ log[Len(log)].op = "report"

\* A shutdown where the first unsubscribe threw, the second was still
\* attempted, the drain failed and the final count was printed all the same.
C27_Witness ==
  /\ sub_class = "NATSSubscriber" /\ sub_reported # NoReport
  /\ Len(sub_sd.log) = 4
  /\ sub_sd.log[1].op = "unsubscribe" /\ ~sub_sd.log[1].ok
  /\ sub_sd.log[2].op = "unsubscribe" /\ sub_sd.log[2].ok
  /\ sub_sd.log[3].op = "drain" /\ ~sub_sd.log[3].ok

\* C28: the message counter of a subscriber is 0 before the first message,
\* never decreases, goes up by exactly one with every message handled on any
\* of the subscriptions and by nothing else, so that the n-th handled message
\* carries the number n and no two handled messages share a number.
C28_CounterCountsEveryMessageOnce ==
  /\ sub_messageCount = 0
  /\ [](/\ sub_messageCount = Len(sub_handled)
        /\ \A n \in DOMAIN sub_handled : sub_handled[n].number = n)
  /\ [][/\ sub_messageCount' >= sub_messageCount
        /\ sub_messageCount' - sub_messageCount = Len(sub_handled') - Len(sub_handled)
        /\ Len(sub_handled') - Len(sub_handled) \in {0, 1}]_vars

\* Messages handled by the loops of two different subscriptions of one
\* process, one after the other.
C28_Witness ==
  /\ Len(sub_handled) >= 2
  /\ sub_handled[1].sub # sub_handled[2].sub
  /\ sub_messageCount = 2

\* C29: a request on the fallback subject is issued only after a primary
\* failure whose reason is no responder, permission denied or timeout; a
\* primary failure with any other error is not followed by a fallback request.
C29_FallbackOnlyAfterClassifiedFailure ==
  \A n \in DOMAIN pub_log :
    (/\ pub_log[n].attempt = 1 /\ pub_log[n].result = "failed"
     /\ \E r \in DOMAIN pub_requests : pub_requests[r].subject = PubConfig.fallbackSubject
                                       /\ pub_requests[r].data.attempt = 2)
      => pub_log[n].reason \in {"NoActiveSubscribers", "NoResponderError",
                                "PermissionDenied", "RequestTimeout"}

\* C30: within one call, two failures with the same raw error message are
\* given the same reason, whichever attempt they occurred on.
C30_SameErrorSameReason ==
  \A n, m \in DOMAIN pub_log :
    (/\ pub_log[n].result = "failed" /\ pub_log[m].result = "failed"
     /\ pub_log[n].errorMsg = pub_log[m].errorMsg)
      => pub_log[n].reason = pub_log[m].reason

\* C31 (as claimed): once connectWithFallback has returned, it returned true exactly when
\* the instance holds an open session and a connected-cluster reference naming
\* that session's cluster, which is the cluster of the last attempt and passed
\* the capability test; when it returned false the instance holds no session,
\* no open connection and no connected-cluster reference.
C31_TrueIffValidatedOpenSession ==
  \A r \in Runs :
    sel_pc[r] = "done" =>
      /\ sel_ret[r] \in {"true", "false"}
      /\ sel_ret[r] = "true" <=>
           (/\ sel_nc[r] # NULL /\ sel_nc[r] \in sel_open[r]
            /\ sel_connectedCluster[r] = sel_nc[r])
      /\ sel_ret[r] = "true" =>
           (/\ sel_open[r] = {sel_nc[r]}
            /\ sel_attempts[r] # <<>>
            /\ sel_attempts[r][Len(sel_attempts[r])].cluster = sel_connectedCluster[r]
            /\ sel_attempts[r][Len(sel_attempts[r])].validated)
      /\ sel_ret[r] = "false" =>
           (sel_nc[r] = NULL /\ sel_connectedCluster[r] = NULL /\ sel_open[r] = {})

(***************************************************************************)
(* Properties of the all-scenarios test suite (SpecTestSuite).            *)
(***************************************************************************)
\* C32: between two test cases of the suite no connection opened by a test
\* case is still open: every test case closes its connection before it
\* returns, on the success path and on every failure path.
C32_NoOpenSessionBetweenTestCases ==
  ts_pc \in {"idle", "done"} =>
    \A n \in DOMAIN ts_sessions : ts_sessions[n].state = "closed"

\* C33: every result recorded as a success stands for an operation the suite
\* performed for that user on that cluster and that succeeded.
C33_SuccessEntriesWerePerformed ==
  \A n \in DOMAIN ts_results :
    ts_results[n].success =>
      \E k \in DOMAIN ts_ops :
        /\ ts_ops[k].user = ts_results[n].user
        /\ ts_ops[k].cluster = ts_results[n].cluster
        /\ ts_ops[k].succeeded

\* C34: for every subscriber child that has printed the outcome of its
\* endpoint selection, the orchestrator holds exactly one connection result
\* for that user, and its success flag says whether the cluster the child
\* ended on is the expected one.
C34_OneConnectionResultPerSubscriber ==
  \A j \in DOMAIN orch_processes :
    orch_processes[j].printed = Len(SubscriberLines(orch_processes[j].user)) =>
      /\ Cardinality({ n \in DOMAIN orch_testResults :
                         /\ orch_testResults[n].type = "connection"
                         /\ orch_testResults[n].user = orch_processes[j].user }) = 1
      /\ \A n \in DOMAIN orch_testResults :
           (orch_testResults[n].type = "connection"
              /\ orch_testResults[n].user = orch_processes[j].user)
             => (orch_testResults[n].success
                   <=> SelectedCluster(orch_processes[j].user)
                         = orch_processes[j].expectedCluster)

\* C35: when cleanup() of the orchestrator has completed, no child the
\* orchestrator spawned is still running, subscriber or publisher, and no
\* child has been sent the termination signal more than once.
C35_NoChildOutlivesCleanup ==
  orch_pc = "done" =>
    /\ \A j \in DOMAIN orch_processes :
         ~orch_processes[j].alive /\ Len(orch_processes[j].signals) <= 1
    /\ \A p \in DOMAIN orch_publishers : orch_publishers[p].state = "closed"

\* C36: once the orchestrator has handled SIGINT or SIGTERM and the cleanup
\* the handler started has completed, no subscriber child and no publisher
\* child is spawned any more, so that no further test case is run.
C36_NothingStartedAfterSignalCleanup ==
  /\ \A j \in DOMAIN orch_processes : orch_processes[j].after # "completed"
  /\ \A p \in DOMAIN orch_publishers : orch_publishers[p].after # "completed"

\* C37: the subscriber's graceful shutdown runs at most once per process: a
\* second trigger during a shutdown in progress does not execute the
\* unsubscribe and drain steps a second time on the same session.
C37_ShutdownStepsRunOnce ==
  /\ sub_again.pc \notin {"unsubscribing", "closing"}
  /\ \A n \in DOMAIN sub_again.log :
       sub_again.log[n].op \notin {"unsubscribe", "drain"}

\* C38: in the message loop of subscriber.ts a failure to publish the
\* acknowledgement of one request is isolated: the message is counted like any
\* other, the loop of its subscription goes on to the next message waiting
\* for it, and a later request handled on that subscription whose publish
\* succeeds is acknowledged on its own reply subject.
C38_ReplyFailureIsIsolated ==
  \A n \in DOMAIN sub_handled : sub_handled[n].replyThrew =>
    /\ sub_handled[n].number = n /\ sub_messageCount >= n
    /\ \A r \in DOMAIN sub_replies : sub_replies[r].request # sub_handled[n].id
         \/ sub_replies[r].sub # sub_handled[n].sub
    /\ (Alive /\ ~Exiting /\ sub_inbox[sub_handled[n].sub] # <<>>)
         => ENABLED HandleMessage(sub_handled[n].sub, TRUE)
    /\ \A m \in DOMAIN sub_handled :
         (m > n /\ sub_handled[m].sub = sub_handled[n].sub
            /\ sub_handled[m].reply # NoReply /\ ~sub_handled[m].replyThrew)
         => \E r \in DOMAIN sub_replies :
              /\ sub_replies[r].request = sub_handled[m].id
              /\ sub_replies[r].sub = sub_handled[m].sub
              /\ sub_replies[r].to = sub_handled[m].reply
              /\ sub_replies[r].number = m

\* A request whose acknowledgement failed, and a later request on the same
\* subscription that was handled and acknowledged.
C38_Witness ==
  \E n, m \in DOMAIN sub_handled :
    /\ n < m /\ sub_handled[n].replyThrew
    /\ sub_handled[m].sub = sub_handled[n].sub
    /\ sub_handled[m].reply # NoReply
    /\ \E r \in DOMAIN sub_replies :
         sub_replies[r].request = sub_handled[m].id /\ sub_replies[r].sub = sub_handled[m].sub

\* C39: in the interactive mode of publisher.ts a failed publishWithFallback
\* or publishSimple does not end the session: every line is processed on the
\* connection before any close() of it, the loop goes on after a line, failed
\* or not, and takes the next one, it ends only by exit, quit or the end of
\* the input, and close() then reaches nc.drain() exactly once, after the
\* loop.
C39_FailedLineKeepsSession ==
  pub_main.interactive =>
    /\ \A n \in DOMAIN pub_main.lines :
         pub_main.lines[n].rl # "none" /\ pub_main.lines[n].closes = 0
    /\ (pub_pc \in {"ready", "returned", "threw"} /\ pub_main.endedBy = "none") =>
         /\ pub_main.rl # "none" /\ pub_main.closes = 0
         /\ pub_calls < MaxCalls => ENABLED PublishWithFallbackStart("Hello")
         /\ Len(pub_oneway) < MaxOneWay =>
              ENABLED PublishSimple(<<"rpc","hello","world">>, OneWayMessage, FALSE, TRUE)
    /\ pub_main.endedBy \in {"none", "exit", "quit", "eof"}
    /\ pub_main.endedBy # "none" => pub_main.rl = "closed"
    /\ pub_main.endedBy \in {"exit", "quit", "eof"} <=> pub_main.closes = 1
    /\ pub_main.closes <= 1
    /\ (pub_exit # PubNoExit /\ pub_nc) =>
         pub_main.closes = 1 /\ pub_main.drain \in {"done", "rejected"}

\* An interactive session in which a line failed, a later line was processed,
\* the loop was left by `exit` and the process ended after its one close().
C39_Witness ==
  /\ pub_main.interactive /\ pub_exit # PubNoExit
  /\ pub_main.endedBy = "exit" /\ pub_main.closes = 1 /\ pub_main.drain = "done"
  /\ \E n, m \in DOMAIN pub_main.lines :
       n < m /\ pub_main.lines[n].result = "failed" /\ pub_main.lines[m].result = "ok"
  /\ pub_calls > 0 /\ Len(pub_oneway) > 0

====
